---- MODULE Spec2Model ----
(***************************************************************************)
(* StreamVByte codecs (aqrit/streamvbyte): the "1234" (svb1) and "0124"    *)
(* (svb0) encoders in their SSE4.1 (_x64) and portable (_generic) builds,  *)
(* the 16-bit short varint codec, and the compress-bound helpers.          *)
(*                                                                         *)
(* Representation.  TLC integers are 32-bit signed, so a uint32_t is kept  *)
(* as its four bytes in memory order (little endian), an __m128i as its    *)
(* sixteen bytes, and a size_t / uint64_t as its eight bytes, least        *)
(* significant first.  Buffers are sequences of bytes; offset p of a       *)
(* buffer is element p + 1 of the sequence.                                *)
(***************************************************************************)
EXTENDS Integers, Sequences, FiniteSets, TLC

(***************************************************************************)
(* Bit and byte helpers                                                    *)
(***************************************************************************)
RECURSIVE BitAnd(_, _)
BitAnd(x, y) ==
  IF x = 0 \/ y = 0 THEN 0
  ELSE (x % 2) * (y % 2) + 2 * BitAnd(x \div 2, y \div 2)

RECURSIVE BitOr(_, _)
BitOr(x, y) ==
  IF x = 0 THEN y
  ELSE IF y = 0 THEN x
  ELSE (IF x % 2 = 1 \/ y % 2 = 1 THEN 1 ELSE 0) + 2 * BitOr(x \div 2, y \div 2)

RECURSIVE BitXor(_, _)
BitXor(x, y) ==
  IF x = 0 THEN y
  ELSE IF y = 0 THEN x
  ELSE ((x + y) % 2) + 2 * BitXor(x \div 2, y \div 2)

Bit(x, n) == (x \div (2 ^ n)) % 2

\* uint32_t as bytes in memory order
Lo16(w) == w[1] + 256 * w[2]
Hi16(w) == w[3] + 256 * w[4]
FromHalves(lo, hi) == << lo % 256, lo \div 256, hi % 256, hi \div 256 >>
U32(n) == FromHalves(n % 65536, n \div 65536)
IsZero32(w) == Lo16(w) = 0 /\ Hi16(w) = 0
\* w > 0xFF, w > 0xFFFF, w > 0xFFFFFF as the C comparisons on uint32_t
Gt_FF(w) == Hi16(w) # 0 \/ w[2] # 0
Gt_FFFF(w) == Hi16(w) # 0
Gt_FFFFFF(w) == w[4] # 0

Add32(a, b) ==
  LET lo == Lo16(a) + Lo16(b)
      hi == Hi16(a) + Hi16(b) + (lo \div 65536)
  IN FromHalves(lo % 65536, hi % 65536)

Sub32(a, b) ==
  LET lo == 65536 + Lo16(a) - Lo16(b)
      hi == 65536 + Hi16(a) - Hi16(b) - (IF lo < 65536 THEN 1 ELSE 0)
  IN FromHalves(lo % 65536, hi % 65536)

\* logical right shift of a uint32_t, 0 <= n <= 31
Shr32(a, n) ==
  IF n >= 16 THEN FromHalves(Hi16(a) \div (2 ^ (n - 16)), 0)
  ELSE FromHalves((Lo16(a) \div (2 ^ n)) + (Hi16(a) % (2 ^ n)) * (2 ^ (16 - n)),
                  Hi16(a) \div (2 ^ n))

\* arithmetic right shift by 31 of the int32_t reading: 0 or 0xFFFFFFFF
Sar31(a) == IF a[4] >= 128 THEN << 255, 255, 255, 255 >> ELSE << 0, 0, 0, 0 >>

And32(a, b) == [k \in 1..4 |-> BitAnd(a[k], b[k])]
Or32(a, b) == [k \in 1..4 |-> BitOr(a[k], b[k])]
Xor32(a, b) == [k \in 1..4 |-> BitXor(a[k], b[k])]
Neg32(a) == Sub32(<< 0, 0, 0, 0 >>, a)

\* size_t / uint64_t as eight bytes, least significant first
U64(n) ==
  << n % 256, (n \div 256) % 256, (n \div 65536) % 256, n \div 16777216,
     0, 0, 0, 0 >>
ToInt(a) == a[1] + 256 * a[2] + 65536 * a[3] + 16777216 * a[4]

RECURSIVE AddC(_, _, _)
AddC(a, b, c) ==
  IF a = << >> THEN << >>
  ELSE LET s == a[1] + b[1] + c
       IN << s % 256 >> \o AddC(Tail(a), Tail(b), s \div 256)

Add64(a, b) == AddC(a, b, 0)
Sub64(a, b) == AddC(a, [k \in 1..8 |-> 255 - b[k]], 1)

\* a >> n and a << n on 64 bits, 0 <= n <= 63
Shr64(a, n) ==
  LET q == n \div 8
      r == n % 8
      byte(j) == IF j <= 8 THEN a[j] ELSE 0
  IN [k \in 1..8 |-> (byte(k + q) \div (2 ^ r))
                     + (byte(k + q + 1) % (2 ^ r)) * (2 ^ (8 - r))]

Shl64(a, n) ==
  LET q == n \div 8
      r == n % 8
      byte(j) == IF j >= 1 THEN a[j] ELSE 0
  IN [k \in 1..8 |-> ((byte(k - q) * (2 ^ r)) % 256)
                     + (byte(k - q - 1) \div (2 ^ (8 - r)))]

RECURSIVE MulSum(_, _, _, _)
MulSum(a, b, p, i) ==
  IF i > p THEN 0 ELSE a[i] * b[p + 1 - i] + MulSum(a, b, p, i + 1)

RECURSIVE MulC(_, _, _, _)
MulC(a, b, p, c) ==
  IF p > 8 THEN << >>
  ELSE LET s == MulSum(a, b, p, 1) + c
       IN << s % 256 >> \o MulC(a, b, p + 1, s \div 256)

\* a * b modulo 2^64
Mul64(a, b) == MulC(a, b, 1, 0)

And64(a, b) == [k \in 1..8 |-> BitAnd(a[k], b[k])]
Or64(a, b) == [k \in 1..8 |-> BitOr(a[k], b[k])]

\* conversion of a size_t to uint32_t (and its zero extension back)
Trunc32(a) == << a[1], a[2], a[3], a[4], 0, 0, 0, 0 >>

(***************************************************************************)
(* SSE intrinsics used by the x64 routines, on sixteen bytes in memory     *)
(* order.  Lane l of 32 bits is bytes 4l+1..4l+4, word k of 16 bits is     *)
(* bytes 2k+1, 2k+2.                                                       *)
(***************************************************************************)
Min(x, y) == IF x <= y THEN x ELSE y
Lane32(v, l) == SubSeq(v, 4 * l + 1, 4 * l + 4)
FromLanes(a, b, c, d) == a \o b \o c \o d
Word16(v, k) == v[2 * k + 1] + 256 * v[2 * k + 2]
FromWords(f) == [k \in 1..16 |-> IF k % 2 = 1 THEN f[(k - 1) \div 2] % 256
                                 ELSE f[(k - 1) \div 2] \div 256]
Signed16(w) == IF w >= 32768 THEN w - 65536 ELSE w

_mm_setzero_si128 == [k \in 1..16 |-> 0]
_mm_set1_epi8(x) == [k \in 1..16 |-> x]
_mm_set1_epi16(x) == [k \in 1..16 |-> IF k % 2 = 1 THEN x % 256 ELSE x \div 256]
_mm_min_epu8(a, b) == [k \in 1..16 |-> Min(a[k], b[k])]
_mm_and_si128(a, b) == [k \in 1..16 |-> BitAnd(a[k], b[k])]
_mm_or_si128(a, b) == [k \in 1..16 |-> BitOr(a[k], b[k])]
_mm_xor_si128(a, b) == [k \in 1..16 |-> BitXor(a[k], b[k])]
_mm_cmpeq_epi8(a, b) == [k \in 1..16 |-> IF a[k] = b[k] THEN 255 ELSE 0]
_mm_avg_epu8(a, b) == [k \in 1..16 |-> (a[k] + b[k] + 1) \div 2]

\* signed 16-bit words saturated to unsigned bytes; a gives the low half
_mm_packus_epi16(a, b) ==
  LET sat(w) == IF w >= 32768 THEN 0 ELSE IF w > 255 THEN 255 ELSE w
  IN [k \in 1..16 |-> IF k <= 8 THEN sat(Word16(a, k - 1))
                      ELSE sat(Word16(b, k - 9))]

\* signed 32-bit lanes saturated to unsigned 16-bit words
_mm_packus_epi32(a, b) ==
  LET sat(w) == IF w[4] >= 128 THEN 0
                ELSE IF Hi16(w) # 0 THEN 65535 ELSE Lo16(w)
  IN FromWords([k \in 0..7 |-> IF k < 4 THEN sat(Lane32(a, k))
                               ELSE sat(Lane32(b, k - 4))])

_mm_min_epi16(a, b) ==
  FromWords([k \in 0..7 |->
     IF Signed16(Word16(a, k)) <= Signed16(Word16(b, k))
     THEN Word16(a, k) ELSE Word16(b, k)])

_mm_adds_epu16(a, b) ==
  FromWords([k \in 0..7 |-> Min(65535, Word16(a, k) + Word16(b, k))])

_mm_slli_epi16(a, n) ==
  FromWords([k \in 0..7 |-> (Word16(a, k) * (2 ^ n)) % 65536])

RECURSIVE MaskFrom(_, _)
MaskFrom(a, k) ==
  IF k > 16 THEN 0 ELSE (a[k] \div 128) + 2 * MaskFrom(a, k + 1)

_mm_movemask_epi8(a) == MaskFrom(a, 1)

_mm_shuffle_epi8(a, m) ==
  [k \in 1..16 |-> IF m[k] >= 128 THEN 0 ELSE a[(m[k] % 16) + 1]]

_mm_add_epi32(a, b) ==
  FromLanes(Add32(Lane32(a, 0), Lane32(b, 0)), Add32(Lane32(a, 1), Lane32(b, 1)),
            Add32(Lane32(a, 2), Lane32(b, 2)), Add32(Lane32(a, 3), Lane32(b, 3)))

_mm_sub_epi32(a, b) ==
  FromLanes(Sub32(Lane32(a, 0), Lane32(b, 0)), Sub32(Lane32(a, 1), Lane32(b, 1)),
            Sub32(Lane32(a, 2), Lane32(b, 2)), Sub32(Lane32(a, 3), Lane32(b, 3)))

\* (a:b) >> (8 * n), low sixteen bytes; b is the low operand
_mm_alignr_epi8(a, b, n) == SubSeq(b \o a, n + 1, n + 16)

\* signed a > b per 32-bit lane
SignedGt32(a, b) ==
  LET ka == (Hi16(a) + 32768) % 65536
      kb == (Hi16(b) + 32768) % 65536
  IN ka > kb \/ (ka = kb /\ Lo16(a) > Lo16(b))

_mm_cmpgt_epi32(a, b) ==
  [k \in 1..16 |->
     IF SignedGt32(Lane32(a, (k - 1) \div 4), Lane32(b, (k - 1) \div 4))
     THEN 255 ELSE 0]

_mm_unpacklo_epi32(a, b) ==
  FromLanes(Lane32(a, 0), Lane32(b, 0), Lane32(a, 1), Lane32(b, 1))
_mm_unpackhi_epi32(a, b) ==
  FromLanes(Lane32(a, 2), Lane32(b, 2), Lane32(a, 3), Lane32(b, 3))
_mm_unpacklo_epi64(a, b) == SubSeq(a, 1, 8) \o SubSeq(b, 1, 8)
_mm_unpackhi_epi64(a, b) == SubSeq(a, 9, 16) \o SubSeq(b, 9, 16)
_mm_unpacklo_epi8(a, b) ==
  [k \in 1..16 |-> IF k % 2 = 1 THEN a[(k + 1) \div 2] ELSE b[k \div 2]]

_mm_insert_epi32(v, w, l) == [k \in 1..16 |-> IF (k - 1) \div 4 = l THEN w[k - 4 * l] ELSE v[k]]
_mm_extract_epi32(v, l) == Lane32(v, l)

_mm_cvtsi32_si128(w) == w \o [k \in 1..12 |-> 0]
_mm_cvtsi64_si128(q) == q \o [k \in 1..8 |-> 0]
_mm_cvtsi128_si64(v) == SubSeq(v, 1, 8)
_mm_slli_epi64(v, n) == Shl64(SubSeq(v, 1, 8), n) \o Shl64(SubSeq(v, 9, 16), n)

\* sum of absolute byte differences of each 8-byte half, as a 64-bit lane
RECURSIVE SadFrom(_, _, _, _)
SadFrom(a, b, k, last) ==
  IF k > last THEN 0
  ELSE (IF a[k] >= b[k] THEN a[k] - b[k] ELSE b[k] - a[k]) + SadFrom(a, b, k + 1, last)

_mm_sad_epu8(a, b) == U64(SadFrom(a, b, 1, 8)) \o U64(SadFrom(a, b, 9, 16))

\* the contents _mm_undefined_si128() may leave in a register
UndefinedXmm == { [k \in 1..16 |-> 0], [k \in 1..16 |-> 165] }

(***************************************************************************)
(* Bounds and key-block length (svb.h, svb_internal.h, short_varint.c)     *)
(***************************************************************************)
\* a key block of one bit per element
_svb_key_block_len_bits(count) == Shr64(Add64(count, U64(3)), 3)

_svb_key_block_len(count) == Shr64(Add64(count, U64(3)), 2)

\* a bound of two data bytes per element
streamvbyte_compress_bound_half(count) ==
  Add64(_svb_key_block_len(count), Shl64(count, 1))

streamvbyte_compress_bound(count) ==
  LET key_len == _svb_key_block_len(count)
      data_len_max == Shl64(count, 2)
  IN Add64(key_len, data_len_max)

\* the short bound with the key bitmap rounded down
short_compress_bound_floor(count) ==
  Add64(Shl64(Trunc32(count), 1), Shr64(Trunc32(count), 3))

\* the parameter is a uint32_t, widened to uint64_t inside
short_compress_bound(count) ==
  LET n == Trunc32(count)
  IN Add64(Shl64(n, 1), Shr64(Add64(n, U64(7)), 3))

(***************************************************************************)
(* Filters (svb_internal.h)                                                *)
(***************************************************************************)
_zigzag_encode_32(val) == Xor32(Add32(val, val), Sar31(val))
\* the zigzag inverse without the sign mask
_zigzag_decode_32_nosign(val) == Shr32(val, 1)

_zigzag_decode_32(val) ==
  Xor32(Shr32(val, 1), Neg32(And32(val, << 1, 0, 0, 0 >>)))
_delta_encode_32(val, previous) == Sub32(val, previous)
_delta_decode_32(val, previous) == Add32(val, previous)
_delta_zigzag_encode_32(val, previous) ==
  _zigzag_encode_32(_delta_encode_32(val, previous))
_delta_zigzag_decode_32(val, previous) ==
  _delta_decode_32(_zigzag_decode_32(val), previous)

_mm_zigzag_encode_epi32(v) ==
  LET signmask == _mm_cmpgt_epi32(_mm_setzero_si128, v)
  IN _mm_xor_si128(_mm_add_epi32(v, v), signmask)

\* the vector delta without the rotation across packs
_mm_delta_encode_epi32_norot(v, prev) == _mm_sub_epi32(v, prev)

_mm_delta_encode_epi32(v, prev) ==
  _mm_sub_epi32(v, _mm_alignr_epi8(v, prev, 12))

_mm_delta_zigzag_encode_epi32(v, prev) ==
  _mm_zigzag_encode_epi32(_mm_delta_encode_epi32(v, prev))

\* SVB_TRANSPOSE: the four rows after the macro, as a tuple
SVB_TRANSPOSE(row0, row1, row2, row3) ==
  LET t0 == _mm_unpacklo_epi32(row0, row1)
      t1 == _mm_unpacklo_epi32(row2, row3)
      t2 == _mm_unpackhi_epi32(row0, row1)
      t3 == _mm_unpackhi_epi32(row2, row3)
  IN << _mm_unpacklo_epi64(t0, t1), _mm_unpackhi_epi64(t0, t1),
        _mm_unpacklo_epi64(t2, t3), _mm_unpackhi_epi64(t2, t3) >>

(***************************************************************************)
(* Format tables (svb1_enc.c, svb0_enc.c), entry k of the C array is       *)
(* element k + 1 here                                                      *)
(***************************************************************************)
svb1_len_table ==
  <<
     4,  5,  6,  7,  5,  6,  7,  8,  6,  7,  8,  9,  7,  8,  9, 10,
     5,  6,  7,  8,  6,  7,  8,  9,  7,  8,  9, 10,  8,  9, 10, 11,
     6,  7,  8,  9,  7,  8,  9, 10,  8,  9, 10, 11,  9, 10, 11, 12,
     7,  8,  9, 10,  8,  9, 10, 11,  9, 10, 11, 12, 10, 11, 12, 13,
     5,  6,  7,  8,  6,  7,  8,  9,  7,  8,  9, 10,  8,  9, 10, 11,
     6,  7,  8,  9,  7,  8,  9, 10,  8,  9, 10, 11,  9, 10, 11, 12,
     7,  8,  9, 10,  8,  9, 10, 11,  9, 10, 11, 12, 10, 11, 12, 13,
     8,  9, 10, 11,  9, 10, 11, 12, 10, 11, 12, 13, 11, 12, 13, 14,
     6,  7,  8,  9,  7,  8,  9, 10,  8,  9, 10, 11,  9, 10, 11, 12,
     7,  8,  9, 10,  8,  9, 10, 11,  9, 10, 11, 12, 10, 11, 12, 13,
     8,  9, 10, 11,  9, 10, 11, 12, 10, 11, 12, 13, 11, 12, 13, 14,
     9, 10, 11, 12, 10, 11, 12, 13, 11, 12, 13, 14, 12, 13, 14, 15,
     7,  8,  9, 10,  8,  9, 10, 11,  9, 10, 11, 12, 10, 11, 12, 13,
     8,  9, 10, 11,  9, 10, 11, 12, 10, 11, 12, 13, 11, 12, 13, 14,
     9, 10, 11, 12, 10, 11, 12, 13, 11, 12, 13, 14, 12, 13, 14, 15,
    10, 11, 12, 13, 11, 12, 13, 14, 12, 13, 14, 15, 13, 14, 15, 16
  >>

svb1_enc_table ==
  <<
     0,  4,  8, 12, 13, 14, 15,  0,  0,  0,  0,  0,  0,  0,  0,  0,
     0,  1,  4,  8, 12, 13, 14, 15,  0,  0,  0,  0,  0,  0,  0,  0,
     0,  1,  2,  4,  8, 12, 13, 14, 15,  0,  0,  0,  0,  0,  0,  0,
     0,  1,  2,  3,  4,  8, 12, 13, 14, 15,  0,  0,  0,  0,  0,  0,
     0,  4,  5,  8, 12, 13, 14, 15,  0,  0,  0,  0,  0,  0,  0,  0,
     0,  1,  4,  5,  8, 12, 13, 14, 15,  0,  0,  0,  0,  0,  0,  0,
     0,  1,  2,  4,  5,  8, 12, 13, 14, 15,  0,  0,  0,  0,  0,  0,
     0,  1,  2,  3,  4,  5,  8, 12, 13, 14, 15,  0,  0,  0,  0,  0,
     0,  4,  5,  6,  8, 12, 13, 14, 15,  0,  0,  0,  0,  0,  0,  0,
     0,  1,  4,  5,  6,  8, 12, 13, 14, 15,  0,  0,  0,  0,  0,  0,
     0,  1,  2,  4,  5,  6,  8, 12, 13, 14, 15,  0,  0,  0,  0,  0,
     0,  1,  2,  3,  4,  5,  6,  8, 12, 13, 14, 15,  0,  0,  0,  0,
     0,  4,  5,  6,  7,  8, 12, 13, 14, 15,  0,  0,  0,  0,  0,  0,
     0,  1,  4,  5,  6,  7,  8, 12, 13, 14, 15,  0,  0,  0,  0,  0,
     0,  1,  2,  4,  5,  6,  7,  8, 12, 13, 14, 15,  0,  0,  0,  0,
     0,  1,  2,  3,  4,  5,  6,  7,  8, 12, 13, 14, 15,  0,  0,  0,
     0,  4,  8,  9, 12, 13, 14, 15,  0,  0,  0,  0,  0,  0,  0,  0,
     0,  1,  4,  8,  9, 12, 13, 14, 15,  0,  0,  0,  0,  0,  0,  0,
     0,  1,  2,  4,  8,  9, 12, 13, 14, 15,  0,  0,  0,  0,  0,  0,
     0,  1,  2,  3,  4,  8,  9, 12, 13, 14, 15,  0,  0,  0,  0,  0,
     0,  4,  5,  8,  9, 12, 13, 14, 15,  0,  0,  0,  0,  0,  0,  0,
     0,  1,  4,  5,  8,  9, 12, 13, 14, 15,  0,  0,  0,  0,  0,  0,
     0,  1,  2,  4,  5,  8,  9, 12, 13, 14, 15,  0,  0,  0,  0,  0,
     0,  1,  2,  3,  4,  5,  8,  9, 12, 13, 14, 15,  0,  0,  0,  0,
     0,  4,  5,  6,  8,  9, 12, 13, 14, 15,  0,  0,  0,  0,  0,  0,
     0,  1,  4,  5,  6,  8,  9, 12, 13, 14, 15,  0,  0,  0,  0,  0,
     0,  1,  2,  4,  5,  6,  8,  9, 12, 13, 14, 15,  0,  0,  0,  0,
     0,  1,  2,  3,  4,  5,  6,  8,  9, 12, 13, 14, 15,  0,  0,  0,
     0,  4,  5,  6,  7,  8,  9, 12, 13, 14, 15,  0,  0,  0,  0,  0,
     0,  1,  4,  5,  6,  7,  8,  9, 12, 13, 14, 15,  0,  0,  0,  0,
     0,  1,  2,  4,  5,  6,  7,  8,  9, 12, 13, 14, 15,  0,  0,  0,
     0,  1,  2,  3,  4,  5,  6,  7,  8,  9, 12, 13, 14, 15,  0,  0,
     0,  4,  8,  9, 10, 12, 13, 14, 15,  0,  0,  0,  0,  0,  0,  0,
     0,  1,  4,  8,  9, 10, 12, 13, 14, 15,  0,  0,  0,  0,  0,  0,
     0,  1,  2,  4,  8,  9, 10, 12, 13, 14, 15,  0,  0,  0,  0,  0,
     0,  1,  2,  3,  4,  8,  9, 10, 12, 13, 14, 15,  0,  0,  0,  0,
     0,  4,  5,  8,  9, 10, 12, 13, 14, 15,  0,  0,  0,  0,  0,  0,
     0,  1,  4,  5,  8,  9, 10, 12, 13, 14, 15,  0,  0,  0,  0,  0,
     0,  1,  2,  4,  5,  8,  9, 10, 12, 13, 14, 15,  0,  0,  0,  0,
     0,  1,  2,  3,  4,  5,  8,  9, 10, 12, 13, 14, 15,  0,  0,  0,
     0,  4,  5,  6,  8,  9, 10, 12, 13, 14, 15,  0,  0,  0,  0,  0,
     0,  1,  4,  5,  6,  8,  9, 10, 12, 13, 14, 15,  0,  0,  0,  0,
     0,  1,  2,  4,  5,  6,  8,  9, 10, 12, 13, 14, 15,  0,  0,  0,
     0,  1,  2,  3,  4,  5,  6,  8,  9, 10, 12, 13, 14, 15,  0,  0,
     0,  4,  5,  6,  7,  8,  9, 10, 12, 13, 14, 15,  0,  0,  0,  0,
     0,  1,  4,  5,  6,  7,  8,  9, 10, 12, 13, 14, 15,  0,  0,  0,
     0,  1,  2,  4,  5,  6,  7,  8,  9, 10, 12, 13, 14, 15,  0,  0,
     0,  1,  2,  3,  4,  5,  6,  7,  8,  9, 10, 12, 13, 14, 15,  0,
     0,  4,  8,  9, 10, 11, 12, 13, 14, 15,  0,  0,  0,  0,  0,  0,
     0,  1,  4,  8,  9, 10, 11, 12, 13, 14, 15,  0,  0,  0,  0,  0,
     0,  1,  2,  4,  8,  9, 10, 11, 12, 13, 14, 15,  0,  0,  0,  0,
     0,  1,  2,  3,  4,  8,  9, 10, 11, 12, 13, 14, 15,  0,  0,  0,
     0,  4,  5,  8,  9, 10, 11, 12, 13, 14, 15,  0,  0,  0,  0,  0,
     0,  1,  4,  5,  8,  9, 10, 11, 12, 13, 14, 15,  0,  0,  0,  0,
     0,  1,  2,  4,  5,  8,  9, 10, 11, 12, 13, 14, 15,  0,  0,  0,
     0,  1,  2,  3,  4,  5,  8,  9, 10, 11, 12, 13, 14, 15,  0,  0,
     0,  4,  5,  6,  8,  9, 10, 11, 12, 13, 14, 15,  0,  0,  0,  0,
     0,  1,  4,  5,  6,  8,  9, 10, 11, 12, 13, 14, 15,  0,  0,  0,
     0,  1,  2,  4,  5,  6,  8,  9, 10, 11, 12, 13, 14, 15,  0,  0,
     0,  1,  2,  3,  4,  5,  6,  8,  9, 10, 11, 12, 13, 14, 15,  0,
     0,  4,  5,  6,  7,  8,  9, 10, 11, 12, 13, 14, 15,  0,  0,  0,
     0,  1,  4,  5,  6,  7,  8,  9, 10, 11, 12, 13, 14, 15,  0,  0,
     0,  1,  2,  4,  5,  6,  7,  8,  9, 10, 11, 12, 13, 14, 15,  0,
     0,  1,  2,  3,  4,  5,  6,  7,  8,  9, 10, 11, 12, 13, 14, 15
  >>

svb0_len_table ==
  <<
     0,  1,  2,  4,  1,  2,  3,  5,  2,  3,  4,  6,  4,  5,  6,  8,
     1,  2,  3,  5,  2,  3,  4,  6,  3,  4,  5,  7,  5,  6,  7,  9,
     2,  3,  4,  6,  3,  4,  5,  7,  4,  5,  6,  8,  6,  7,  8, 10,
     4,  5,  6,  8,  5,  6,  7,  9,  6,  7,  8, 10,  8,  9, 10, 12,
     1,  2,  3,  5,  2,  3,  4,  6,  3,  4,  5,  7,  5,  6,  7,  9,
     2,  3,  4,  6,  3,  4,  5,  7,  4,  5,  6,  8,  6,  7,  8, 10,
     3,  4,  5,  7,  4,  5,  6,  8,  5,  6,  7,  9,  7,  8,  9, 11,
     5,  6,  7,  9,  6,  7,  8, 10,  7,  8,  9, 11,  9, 10, 11, 13,
     2,  3,  4,  6,  3,  4,  5,  7,  4,  5,  6,  8,  6,  7,  8, 10,
     3,  4,  5,  7,  4,  5,  6,  8,  5,  6,  7,  9,  7,  8,  9, 11,
     4,  5,  6,  8,  5,  6,  7,  9,  6,  7,  8, 10,  8,  9, 10, 12,
     6,  7,  8, 10,  7,  8,  9, 11,  8,  9, 10, 12, 10, 11, 12, 14,
     4,  5,  6,  8,  5,  6,  7,  9,  6,  7,  8, 10,  8,  9, 10, 12,
     5,  6,  7,  9,  6,  7,  8, 10,  7,  8,  9, 11,  9, 10, 11, 13,
     6,  7,  8, 10,  7,  8,  9, 11,  8,  9, 10, 12, 10, 11, 12, 14,
     8,  9, 10, 12,  9, 10, 11, 13, 10, 11, 12, 14, 12, 13, 14, 16
  >>

svb0_enc_table ==
  <<
    12, 13, 14, 15,  0,  0,  0,  0,  0,  0,  0,  0,  0,  0,  0,  0,
     0, 12, 13, 14, 15,  0,  0,  0,  0,  0,  0,  0,  0,  0,  0,  0,
     0,  1, 12, 13, 14, 15,  0,  0,  0,  0,  0,  0,  0,  0,  0,  0,
     0,  1,  2,  3, 12, 13, 14, 15,  0,  0,  0,  0,  0,  0,  0,  0,
     4, 12, 13, 14, 15,  0,  0,  0,  0,  0,  0,  0,  0,  0,  0,  0,
     0,  4, 12, 13, 14, 15,  0,  0,  0,  0,  0,  0,  0,  0,  0,  0,
     0,  1,  4, 12, 13, 14, 15,  0,  0,  0,  0,  0,  0,  0,  0,  0,
     0,  1,  2,  3,  4, 12, 13, 14, 15,  0,  0,  0,  0,  0,  0,  0,
     4,  5, 12, 13, 14, 15,  0,  0,  0,  0,  0,  0,  0,  0,  0,  0,
     0,  4,  5, 12, 13, 14, 15,  0,  0,  0,  0,  0,  0,  0,  0,  0,
     0,  1,  4,  5, 12, 13, 14, 15,  0,  0,  0,  0,  0,  0,  0,  0,
     0,  1,  2,  3,  4,  5, 12, 13, 14, 15,  0,  0,  0,  0,  0,  0,
     4,  5,  6,  7, 12, 13, 14, 15,  0,  0,  0,  0,  0,  0,  0,  0,
     0,  4,  5,  6,  7, 12, 13, 14, 15,  0,  0,  0,  0,  0,  0,  0,
     0,  1,  4,  5,  6,  7, 12, 13, 14, 15,  0,  0,  0,  0,  0,  0,
     0,  1,  2,  3,  4,  5,  6,  7, 12, 13, 14, 15,  0,  0,  0,  0,
     8, 12, 13, 14, 15,  0,  0,  0,  0,  0,  0,  0,  0,  0,  0,  0,
     0,  8, 12, 13, 14, 15,  0,  0,  0,  0,  0,  0,  0,  0,  0,  0,
     0,  1,  8, 12, 13, 14, 15,  0,  0,  0,  0,  0,  0,  0,  0,  0,
     0,  1,  2,  3,  8, 12, 13, 14, 15,  0,  0,  0,  0,  0,  0,  0,
     4,  8, 12, 13, 14, 15,  0,  0,  0,  0,  0,  0,  0,  0,  0,  0,
     0,  4,  8, 12, 13, 14, 15,  0,  0,  0,  0,  0,  0,  0,  0,  0,
     0,  1,  4,  8, 12, 13, 14, 15,  0,  0,  0,  0,  0,  0,  0,  0,
     0,  1,  2,  3,  4,  8, 12, 13, 14, 15,  0,  0,  0,  0,  0,  0,
     4,  5,  8, 12, 13, 14, 15,  0,  0,  0,  0,  0,  0,  0,  0,  0,
     0,  4,  5,  8, 12, 13, 14, 15,  0,  0,  0,  0,  0,  0,  0,  0,
     0,  1,  4,  5,  8, 12, 13, 14, 15,  0,  0,  0,  0,  0,  0,  0,
     0,  1,  2,  3,  4,  5,  8, 12, 13, 14, 15,  0,  0,  0,  0,  0,
     4,  5,  6,  7,  8, 12, 13, 14, 15,  0,  0,  0,  0,  0,  0,  0,
     0,  4,  5,  6,  7,  8, 12, 13, 14, 15,  0,  0,  0,  0,  0,  0,
     0,  1,  4,  5,  6,  7,  8, 12, 13, 14, 15,  0,  0,  0,  0,  0,
     0,  1,  2,  3,  4,  5,  6,  7,  8, 12, 13, 14, 15,  0,  0,  0,
     8,  9, 12, 13, 14, 15,  0,  0,  0,  0,  0,  0,  0,  0,  0,  0,
     0,  8,  9, 12, 13, 14, 15,  0,  0,  0,  0,  0,  0,  0,  0,  0,
     0,  1,  8,  9, 12, 13, 14, 15,  0,  0,  0,  0,  0,  0,  0,  0,
     0,  1,  2,  3,  8,  9, 12, 13, 14, 15,  0,  0,  0,  0,  0,  0,
     4,  8,  9, 12, 13, 14, 15,  0,  0,  0,  0,  0,  0,  0,  0,  0,
     0,  4,  8,  9, 12, 13, 14, 15,  0,  0,  0,  0,  0,  0,  0,  0,
     0,  1,  4,  8,  9, 12, 13, 14, 15,  0,  0,  0,  0,  0,  0,  0,
     0,  1,  2,  3,  4,  8,  9, 12, 13, 14, 15,  0,  0,  0,  0,  0,
     4,  5,  8,  9, 12, 13, 14, 15,  0,  0,  0,  0,  0,  0,  0,  0,
     0,  4,  5,  8,  9, 12, 13, 14, 15,  0,  0,  0,  0,  0,  0,  0,
     0,  1,  4,  5,  8,  9, 12, 13, 14, 15,  0,  0,  0,  0,  0,  0,
     0,  1,  2,  3,  4,  5,  8,  9, 12, 13, 14, 15,  0,  0,  0,  0,
     4,  5,  6,  7,  8,  9, 12, 13, 14, 15,  0,  0,  0,  0,  0,  0,
     0,  4,  5,  6,  7,  8,  9, 12, 13, 14, 15,  0,  0,  0,  0,  0,
     0,  1,  4,  5,  6,  7,  8,  9, 12, 13, 14, 15,  0,  0,  0,  0,
     0,  1,  2,  3,  4,  5,  6,  7,  8,  9, 12, 13, 14, 15,  0,  0,
     8,  9, 10, 11, 12, 13, 14, 15,  0,  0,  0,  0,  0,  0,  0,  0,
     0,  8,  9, 10, 11, 12, 13, 14, 15,  0,  0,  0,  0,  0,  0,  0,
     0,  1,  8,  9, 10, 11, 12, 13, 14, 15,  0,  0,  0,  0,  0,  0,
     0,  1,  2,  3,  8,  9, 10, 11, 12, 13, 14, 15,  0,  0,  0,  0,
     4,  8,  9, 10, 11, 12, 13, 14, 15,  0,  0,  0,  0,  0,  0,  0,
     0,  4,  8,  9, 10, 11, 12, 13, 14, 15,  0,  0,  0,  0,  0,  0,
     0,  1,  4,  8,  9, 10, 11, 12, 13, 14, 15,  0,  0,  0,  0,  0,
     0,  1,  2,  3,  4,  8,  9, 10, 11, 12, 13, 14, 15,  0,  0,  0,
     4,  5,  8,  9, 10, 11, 12, 13, 14, 15,  0,  0,  0,  0,  0,  0,
     0,  4,  5,  8,  9, 10, 11, 12, 13, 14, 15,  0,  0,  0,  0,  0,
     0,  1,  4,  5,  8,  9, 10, 11, 12, 13, 14, 15,  0,  0,  0,  0,
     0,  1,  2,  3,  4,  5,  8,  9, 10, 11, 12, 13, 14, 15,  0,  0,
     4,  5,  6,  7,  8,  9, 10, 11, 12, 13, 14, 15,  0,  0,  0,  0,
     0,  4,  5,  6,  7,  8,  9, 10, 11, 12, 13, 14, 15,  0,  0,  0,
     0,  1,  4,  5,  6,  7,  8,  9, 10, 11, 12, 13, 14, 15,  0,  0,
     0,  1,  2,  3,  4,  5,  6,  7,  8,  9, 10, 11, 12, 13, 14, 15
  >>

(***************************************************************************)
(* The stream being written: the output buffer with the encoder's two      *)
(* cursors, and a record of which offsets were stored to.                  *)
(*   st_hi    one past the highest offset stored to so far (0: none)       *)
(*   key_hi   one past the highest offset a key store touched              *)
(*   data_lo  lowest offset a data store touched (Len(out): none)          *)
(*   n_off    number of data stores that began past the data cursor        *)
(*   n_st     number of store instructions executed                        *)
(***************************************************************************)
Max(x, y) == IF x >= y THEN x ELSE y

StoreBytes(buf, p, bytes) ==
  IF p + Len(bytes) <= Len(buf)
  THEN SubSeq(buf, 1, p) \o bytes \o SubSeq(buf, p + Len(bytes) + 1, Len(buf))
  ELSE [k \in 1..Len(buf) |->
          IF k > p /\ k <= p + Len(bytes) THEN bytes[k - p] ELSE buf[k]]

\* a store of bytes at data_ptr + off (the cursor is not moved)
DataStore(m, off, bytes) ==
  [m EXCEPT !.out = StoreBytes(@, m.data_ptr + off, bytes),
            !.st_hi = Max(@, m.data_ptr + off + Len(bytes)),
            !.data_lo = Min(@, m.data_ptr + off),
            !.n_off = @ + (IF off # 0 THEN 1 ELSE 0),
            !.n_st = @ + 1]

\* a store of bytes at offset p of the key block
KeyStore(m, p, bytes) ==
  [m EXCEPT !.out = StoreBytes(@, p, bytes),
            !.st_hi = Max(@, p + Len(bytes)),
            !.key_hi = Max(@, p + Len(bytes)),
            !.n_st = @ + 1]

Advance(m, len) == [m EXCEPT !.data_ptr = @ + len]

\* the low byte stored twice
svb_storeu_u16_lo(w) == << w % 256, w % 256 >>

\* the keyword stored high byte first
svb_storeu_u16_be(w) == << (w \div 256) % 256, w % 256 >>

svb_storeu_u16(w) == << w % 256, (w \div 256) % 256 >>

(***************************************************************************)
(* SVB1_ENCODE8 and SVB0_ENCODE8 (x64)                                      *)
(***************************************************************************)
\* the "1234" key bits without the step that turns 0x01FF into 0x0101
Svb1Keys8_nomin(src_a, src_b) ==
  LET mask_01 == _mm_set1_epi8(1)
      mask_7F00 == _mm_set1_epi16(32512)
      a0 == _mm_min_epu8(mask_01, src_a)
      b0 == _mm_min_epu8(mask_01, src_b)
      a1 == _mm_packus_epi16(a0, b0)
      a3 == _mm_adds_epu16(a1, mask_7F00)
  IN _mm_movemask_epi8(a3)

\* the sixteen key bits of eight 32-bit values, "1234" format
Svb1Keys8(src_a, src_b) ==
  LET mask_01 == _mm_set1_epi8(1)
      mask_7F00 == _mm_set1_epi16(32512)
      a0 == _mm_min_epu8(mask_01, src_a)
      b0 == _mm_min_epu8(mask_01, src_b)
      a1 == _mm_packus_epi16(a0, b0)
      a2 == _mm_min_epi16(a1, mask_01)
      a3 == _mm_adds_epu16(a2, mask_7F00)
  IN _mm_movemask_epi8(a3)

\* the sixteen key bits of eight 32-bit values, "0124" format
Svb0Keys8(src_a, src_b) ==
  LET mask_01 == _mm_set1_epi8(1)
      mask_0100 == _mm_slli_epi16(mask_01, 8)
      a0 == _mm_min_epu8(mask_01, src_a)
      b0 == _mm_min_epu8(mask_01, src_b)
      a1 == _mm_packus_epi32(a0, b0)
      a2 == _mm_min_epi16(a1, mask_0100)
      a3 == _mm_slli_epi16(a2, 7)
  IN _mm_movemask_epi8(a3)

\* _mm_loadu_si128 of sixteen table bytes starting at C index idx
TableRow(table, idx) == SubSeq(table, idx + 1, idx + 16)

\* the first word shuffled by the second word's table row
Svb1ShufA_hi(keys) == TableRow(svb1_enc_table, BitAnd(keys \div 16, 1008))

Svb1ShufA(keys) == TableRow(svb1_enc_table, BitAnd(keys * 16, 1008))
Svb1ShufB(keys) == TableRow(svb1_enc_table, BitAnd(keys \div 16, 1008))
\* the "0124" shuffle control taken from the "1234" table
Svb0ShufA_svb1(keys) == TableRow(svb1_enc_table, BitAnd(keys * 16, 1008))
Svb0ShufA(keys) == TableRow(svb0_enc_table, BitAnd(keys * 16, 1008))
Svb0ShufB(keys) == TableRow(svb0_enc_table, BitAnd(keys \div 16, 1008))

Svb1LenA(keys) == svb1_len_table[BitAnd(keys, 255) + 1]
\* the second half's length looked up with the first half's key byte
Svb1LenB_low(keys) == svb1_len_table[BitAnd(keys, 255) + 1]
Svb1LenB(keys) == svb1_len_table[(keys \div 256) + 1]
\* the "0124" length looked up in the "1234" table
Svb0LenA_svb1(keys) == svb1_len_table[BitAnd(keys, 255) + 1]
Svb0LenA(keys) == svb0_len_table[BitAnd(keys, 255) + 1]
Svb0LenB(keys) == svb0_len_table[(keys \div 256) + 1]

SVB1_ENCODE8(m, src_a, src_b) ==
  LET keys8 == Svb1Keys8(src_a, src_b)
      data_a == _mm_shuffle_epi8(src_a, Svb1ShufA(keys8))
      data_b == _mm_shuffle_epi8(src_b, Svb1ShufB(keys8))
      m1 == Advance(DataStore(m, 0, data_a), Svb1LenA(keys8))
      m2 == Advance(DataStore(m1, 0, data_b), Svb1LenB(keys8))
      m3 == KeyStore(m2, m2.key_ptr, svb_storeu_u16(keys8))
  IN [m3 EXCEPT !.key_ptr = @ + 2]

SVB0_ENCODE8(m, src_a, src_b) ==
  LET keys8 == Svb0Keys8(src_a, src_b)
      data_a == _mm_shuffle_epi8(src_a, Svb0ShufA(keys8))
      data_b == _mm_shuffle_epi8(src_b, Svb0ShufB(keys8))
      m1 == Advance(DataStore(m, 0, data_a), Svb0LenA(keys8))
      m2 == Advance(DataStore(m1, 0, data_b), Svb0LenB(keys8))
      m3 == KeyStore(m2, m2.key_ptr, svb_storeu_u16(keys8))
  IN [m3 EXCEPT !.key_ptr = @ + 2]

(***************************************************************************)
(* One value, scalar: the 2-bit code and the stream after the store        *)
(***************************************************************************)
\* the bit trick without its last addition dw += b
Svb1Code_x64_nob(dw0) ==
  LET dw1 == Shr32(dw0, 8)
      a0 == Add32(dw1, << 0, 255, 255, 0 >>)
      a1 == Or32(a0, << 255, 255, 255, 0 >>)
      dw2 == Add32(dw1, a1)
      dw3 == Or32(dw2, << 255, 255, 255, 0 >>)
  IN Lo16(Shr32(dw3, 24))

\* the key computed by _svb1_encode1_x64 after its store
Svb1Code_x64(dw0) ==
  LET dw1 == Shr32(dw0, 8)
      a0 == Add32(dw1, << 0, 255, 255, 0 >>)
      b == And32(dw1, << 0, 0, 255, 0 >>)
      a1 == Or32(a0, << 255, 255, 255, 0 >>)
      dw2 == Add32(dw1, a1)
      dw3 == Or32(dw2, << 255, 255, 255, 0 >>)
      dw4 == Add32(dw3, b)
  IN Lo16(Shr32(dw4, 24))

\* _svb1_encode1_x64 followed by the caller's data_ptr += 1 + code
_svb1_encode1_x64(m, dw) ==
  LET code == Svb1Code_x64(dw)
  IN [m |-> Advance(DataStore(m, 0, dw), 1 + code), code |-> code]

\* SVB0_ENCODE1 with the payload length as the code
SVB0_ENCODE1_len(m, x) ==
  LET k == (IF ~IsZero32(x) THEN 1 ELSE 0) + (IF Gt_FF(x) THEN 1 ELSE 0)
           + (IF Gt_FFFF(x) THEN 1 ELSE 0)
  IN [m |-> Advance(DataStore(m, 0, x), k + (IF Gt_FFFF(x) THEN 1 ELSE 0)),
      code |-> k + (IF Gt_FFFF(x) THEN 1 ELSE 0)]

\* SVB0_ENCODE1 advancing by the key, without the fourth byte of key 3
SVB0_ENCODE1_bykey(m, x) ==
  LET k == (IF ~IsZero32(x) THEN 1 ELSE 0) + (IF Gt_FF(x) THEN 1 ELSE 0)
           + (IF Gt_FFFF(x) THEN 1 ELSE 0)
  IN [m |-> Advance(DataStore(m, 0, x), k), code |-> k]

\* SVB0_ENCODE1 without its keys |= k << shift
SVB0_ENCODE1(m, x) ==
  LET k == (IF ~IsZero32(x) THEN 1 ELSE 0) + (IF Gt_FF(x) THEN 1 ELSE 0)
           + (IF Gt_FFFF(x) THEN 1 ELSE 0)
  IN [m |-> Advance(DataStore(m, 0, x), k + (IF Gt_FFFF(x) THEN 1 ELSE 0)),
      code |-> k]

\* _svb1_encode1_generic followed by the caller's data_ptr += 1 + code
_svb1_encode1_generic(m, dw) ==
  LET code0 == IF Gt_FF(dw) THEN 1 ELSE 0
      m1 == DataStore(DataStore(m, 0, << dw[1] >>), 1, << dw[2] >>)
      hi == Shr32(dw, 16)
      code == IF ~IsZero32(hi) THEN code0 + 1 + (IF Gt_FF(hi) THEN 1 ELSE 0)
              ELSE code0
      m2 == IF ~IsZero32(hi)
            THEN DataStore(DataStore(m1, 2, << hi[1] >>), 3, << hi[2] >>)
            ELSE m1
  IN [m |-> Advance(m2, 1 + code), code |-> code]

\* a "0124" scalar encoder that keeps a three-byte code
_svb0_encode1_generic_3byte(m, dw) ==
  LET m1 == DataStore(DataStore(m, 0, << dw[1] >>), 1, << dw[2] >>)
      hi == Shr32(dw, 16)
      small == ~Gt_FFFF(dw)
      code == IF small
              THEN (IF ~IsZero32(dw) THEN 1 ELSE 0) + (IF Gt_FF(dw) THEN 1 ELSE 0)
              ELSE 3
      len == IF small THEN code ELSE IF Gt_FFFFFF(dw) THEN 4 ELSE 3
      m2 == IF small THEN m1
            ELSE DataStore(DataStore(m1, 2, << hi[1] >>), 3, << hi[2] >>)
  IN [m |-> Advance(m2, len), code |-> code]

\* _svb0_encode1_generic followed by the caller's data_ptr += len
_svb0_encode1_generic(m, dw) ==
  LET m1 == DataStore(DataStore(m, 0, << dw[1] >>), 1, << dw[2] >>)
      hi == Shr32(dw, 16)
      small == ~Gt_FFFF(dw)
      code == IF small
              THEN (IF ~IsZero32(dw) THEN 1 ELSE 0) + (IF Gt_FF(dw) THEN 1 ELSE 0)
              ELSE 3
      len == IF small THEN code ELSE 4
      m2 == IF small THEN m1
            ELSE DataStore(DataStore(m1, 2, << hi[1] >>), 3, << hi[2] >>)
  IN [m |-> Advance(m2, len), code |-> code]

(***************************************************************************)
(* Inputs.  test.c fills buf0 with every set/zero combination of sixteen   *)
(* bytes and encodes its first N elements; the model also starts at other  *)
(* 16-byte blocks of that buffer and adds periodic arrays.                 *)
(***************************************************************************)
Buf0Fill == << 128, 17, 34, 51, 68, 85, 102, 119, 136, 153, 170, 187, 204, 221, 238, 255 >>

\* byte k of buf0 after main()'s loop
Buf0Byte(k) ==
  IF Bit(k \div 16, k % 16) = 1 THEN 0 ELSE Buf0Fill[(k % 16) + 1]

\* element e of (uint32_t*)buf0 and of (uint16_t*)buf0
Buf0Word32(e) ==
  << Buf0Byte(4 * e), Buf0Byte(4 * e + 1), Buf0Byte(4 * e + 2), Buf0Byte(4 * e + 3) >>
Buf0Word16(e) == Buf0Byte(2 * e) + 256 * Buf0Byte(2 * e + 1)

MaxBase == 3
BaseStride == 15808
Bases == { BaseStride * b : b \in 0..MaxBase }

MaxRot == 1
Zeros32 == << U32(0) >>
Tight32 == << << 0, 0, 0, 1 >>, << 0, 0, 0, 3 >> >>
Edges32 ==
  << U32(0), U32(1), U32(255), U32(256), U32(65535), << 0, 0, 1, 0 >>,
     << 255, 255, 255, 0 >>, << 0, 0, 0, 1 >>, << 255, 255, 255, 255 >>,
     << 0, 0, 0, 128 >> >>
Zeros16 == << 0 >>
Tight16 == << 256, 65535 >>
Edges16 == << 0, 255, 256, 65535, 1, 32768 >>

Periodic(p, r, n) == [e \in 1..n |-> p[((e - 1 + r) % Len(p)) + 1]]

Inputs32(n) ==
  { [e \in 1..n |-> Buf0Word32(4 * b + e - 1)] : b \in Bases }
  \cup { Periodic(Zeros32, 0, n), Periodic(Tight32, 0, n) }
  \cup { Periodic(Edges32, r, n) : r \in 0..MaxRot }

Inputs16(n) ==
  { [e \in 1..n |-> Buf0Word16(8 * b + e - 1)] : b \in Bases }
  \cup { Periodic(Zeros16, 0, n), Periodic(Tight16, 0, n) }
  \cup { Periodic(Edges16, r, n) : r \in 0..MaxRot }

MaxSmall == 9
MaxBlocks == 2
Tails == { 0, 1, 13 }

Svb1Variants == { "svb1", "svb1z", "svb1d", "svb1dz", "svb1dt" }
Svb0Variants == { "svb0", "svb0z", "svb0d", "svb0dz", "svb0dt" }
SvbVariants == Svb1Variants \cup Svb0Variants
Variants == SvbVariants \cup { "short" }
IsSvb1(v) == v \in Svb1Variants
IsZigzag(v) == v \in { "svb1z", "svb0z" }
IsDelta(v) == v \in { "svb1d", "svb0d", "svb1dt", "svb0dt" }
IsDeltaZigzag(v) == v \in { "svb1dz", "svb0dz" }
IsTranspose(v) == v \in { "svb1dt", "svb0dt" }
HasAnchor(v) == IsDelta(v) \/ IsDeltaZigzag(v)
Builds(v) == IF v = "short" THEN { "x64" } ELSE { "x64", "generic" }
Anchors(v) == IF HasAnchor(v) THEN { U32(0), U32(42) } ELSE { U32(0) }

\* the counts tried: every small count and one of two chunks and a tail; the
\* codecs with a 64-element block path also get whole blocks with tails
Mids == { 13, 17 }
Counts(v) ==
  (0..MaxSmall) \cup Mids
  \cup (IF IsTranspose(v) \/ v = "short"
        THEN { 64 * b + t : b \in 1..MaxBlocks, t \in Tails } ELSE {})

\* memset(buf1, 0xFE, ...) and memset(buf2, 0xFD, ...) of the tests
Slack == 16
Fill1 == 254
Fill2 == 253
Bound(v, n) ==
  IF v = "short" THEN ToInt(short_compress_bound(U64(n)))
  ELSE ToInt(streamvbyte_compress_bound(U64(n)))

(***************************************************************************)
(* State                                                                   *)
(***************************************************************************)
VARIABLES
  variant,   \* which codec: "svb1", ..., "svb0dt", "short"
  build,     \* "x64" or "generic"
  N,         \* the count both calls are given
  in,        \* the input array
  anchor,    \* the `previous` both calls are given
  pc,        \* position of the test: in the encoder, in the decoder, done
  count,     \* the encoder's `count`
  ip,        \* the encoder's `in`, as an element offset into the array
  end,       \* the encoder's `end`, as an element offset
  previous,  \* the encoder's `previous`
  prev,      \* the encoder's `prev` register
  key_ptr,   \* the encoder's key cursor, an offset into out
  data_ptr,  \* the encoder's data cursor, an offset into out
  keys,      \* the scalar loops' key accumulator
  shift,     \* the generic loops' shift
  i,         \* the scalar loops' index
  out,       \* the encoder's output buffer
  enc_end,   \* the encoder's return value, an offset into out (-1: none)
  st_hi, key_hi, data_lo, n_off, n_st,   \* record of the encoder's stores
  n_ld,      \* number of input elements the encoder loaded
  d_in,      \* the decoder's key cursor, an offset into the stream
  d_data,    \* the decoder's data cursor, an offset into the stream
  d_op,      \* the decoder's `out`, as a byte offset into buf2
  d_count,   \* the decoder's `count`
  d_keys,    \* the decoder's tail key byte
  d_i,       \* the decoder's tail index
  d_prev,    \* the decoder's running `previous`
  buf2,      \* the decoder's output buffer, as bytes
  dec_end,   \* the decoder's return value, an offset into the stream (-1: none)
  rd_lo, rd_hi,   \* lowest and one past the highest stream offset loaded
  wr_hi, n_wr,    \* one past the highest buf2 offset stored, number of stores
  big_pc,    \* position of a call whose count is a full size_t
  big_count, \* that call's `count`, as a size_t
  big_bound, \* the compress bound computed for it
  big_start, \* the offset of the data block the call computes
  f_pc,      \* which helper was applied to one value ("idle": none, "arg": not yet)
  f_v,       \* the 32-bit value the helper is applied to
  f_p,       \* the `previous` of the delta helpers
  f_lane,    \* the lane of src_a / src_b that holds the value (ENCODE8)
  f_fill,    \* the value in the seven other lanes (ENCODE8)
  f_key,     \* the 2-bit key the helper produced for the value
  f_len,     \* the bytes the data cursor advanced by
  f_res      \* the value the decode helper gave back

encvars ==
  << count, ip, end, previous, prev, key_ptr, data_ptr, keys, shift, i, out,
     enc_end, st_hi, key_hi, data_lo, n_off, n_st, n_ld >>
callvars == << variant, build, N, in, anchor >>
decvars ==
  << d_in, d_data, d_op, d_count, d_keys, d_i, d_prev, buf2, dec_end,
     rd_lo, rd_hi, wr_hi, n_wr >>
sizevars == << big_pc, big_count, big_bound, big_start >>
fnvars == << f_pc, f_v, f_p, f_lane, f_fill, f_key, f_len, f_res >>
vars == << callvars, pc, encvars, decvars, sizevars, fnvars >>

ElemSize(v) == IF v = "short" THEN 2 ELSE 4

Mem ==
  [out |-> out, key_ptr |-> key_ptr, data_ptr |-> data_ptr, st_hi |-> st_hi,
   key_hi |-> key_hi, data_lo |-> data_lo, n_off |-> n_off, n_st |-> n_st]

SetMem(m) ==
  /\ out' = m.out
  /\ key_ptr' = m.key_ptr
  /\ data_ptr' = m.data_ptr
  /\ st_hi' = m.st_hi
  /\ key_hi' = m.key_hi
  /\ data_lo' = m.data_lo
  /\ n_off' = m.n_off
  /\ n_st' = m.n_st

\* the locals of both calls before the encoder is entered
LocalsInit ==
  /\ pc = "entry"
  /\ count = N
  /\ ip = 0
  /\ end = 0
  /\ previous = anchor
  /\ prev = _mm_setzero_si128
  /\ key_ptr = 0
  /\ data_ptr = 0
  /\ keys = 0
  /\ shift = 0
  /\ i = 0
  /\ out = [k \in 1..(Bound(variant, N) + Slack) |-> Fill1]
  /\ enc_end = -1
  /\ st_hi = 0
  /\ key_hi = 0
  /\ data_lo = Bound(variant, N) + Slack
  /\ n_off = 0
  /\ n_st = 0
  /\ n_ld = 0
  /\ d_in = 0
  /\ d_data = 0
  /\ d_op = 0
  /\ d_count = N
  /\ d_keys = 0
  /\ d_i = 0
  /\ d_prev = anchor
  /\ buf2 = [k \in 1..(ElemSize(variant) * N + Slack) |-> Fill2]
  /\ dec_end = -1
  /\ rd_lo = Bound(variant, N) + Slack
  /\ rd_hi = 0
  /\ wr_hi = 0
  /\ n_wr = 0

\* no helper is applied on its own
FnIdle ==
  /\ f_pc = "idle"
  /\ f_v = U32(0)
  /\ f_p = U32(0)
  /\ f_lane = 0
  /\ f_fill = U32(0)
  /\ f_key = 0
  /\ f_len = 0
  /\ f_res = U32(0)

\* the test's calls: a variant, a build, a count, an array and an anchor
Init ==
  /\ variant \in Variants
  /\ build \in Builds(variant)
  /\ N \in Counts(variant)
  /\ in \in (IF variant = "short" THEN Inputs16(N) ELSE Inputs32(N))
  /\ anchor \in Anchors(variant)
  /\ LocalsInit
  /\ big_pc = "idle"
  /\ big_count = U64(N)
  /\ big_bound = U64(0)
  /\ big_start = U64(0)
  /\ FnIdle

(***************************************************************************)
(* The ten SVB encoders                                                    *)
(***************************************************************************)
\* key_block_len as each encoder declares it, and &out[key_block_len]
KeyBlockLen(v, b, cnt) ==
  IF IsTranspose(v) /\ b = "x64" THEN Trunc32(_svb_key_block_len(cnt))
  ELSE _svb_key_block_len(cnt)

\* count & ~mask
AndNot(x, mask) == x - BitAnd(x, mask)

\* the scalar filter with the dz predecessor taken after zigzag
Filter1_zzprev(v, val, p) ==
  IF IsZigzag(v) THEN _zigzag_encode_32(val)
  ELSE IF IsDelta(v) THEN _delta_encode_32(val, p)
  ELSE IF IsDeltaZigzag(v)
  THEN _zigzag_encode_32(_delta_encode_32(val, _zigzag_encode_32(p)))
  ELSE val

\* the scalar filter each variant applies to an element
Filter1(v, val, p) ==
  IF IsZigzag(v) THEN _zigzag_encode_32(val)
  ELSE IF IsDelta(v) THEN _delta_encode_32(val, p)
  ELSE IF IsDeltaZigzag(v) THEN _delta_zigzag_encode_32(val, p)
  ELSE val

\* the chunk filter with the transposed variants left unfiltered
Filter8_nodt(v, src_a, src_b, p) ==
  IF IsZigzag(v)
  THEN << _mm_zigzag_encode_epi32(src_a), _mm_zigzag_encode_epi32(src_b) >>
  ELSE IF IsDelta(v) /\ ~IsTranspose(v)
  THEN << _mm_delta_encode_epi32(src_a, p), _mm_delta_encode_epi32(src_b, src_a) >>
  ELSE IF IsDeltaZigzag(v)
  THEN << _mm_delta_zigzag_encode_epi32(src_a, p),
          _mm_delta_zigzag_encode_epi32(src_b, src_a) >>
  ELSE << src_a, src_b >>

\* the vector filter of the 8-element chunk loops: the two words to encode
Filter8(v, src_a, src_b, p) ==
  IF IsZigzag(v)
  THEN << _mm_zigzag_encode_epi32(src_a), _mm_zigzag_encode_epi32(src_b) >>
  ELSE IF IsDelta(v)
  THEN << _mm_delta_encode_epi32(src_a, p), _mm_delta_encode_epi32(src_b, src_a) >>
  ELSE IF IsDeltaZigzag(v)
  THEN << _mm_delta_zigzag_encode_epi32(src_a, p),
          _mm_delta_zigzag_encode_epi32(src_b, src_a) >>
  ELSE << src_a, src_b >>

ENCODE8(v, m, src_a, src_b) ==
  IF IsSvb1(v) THEN SVB1_ENCODE8(m, src_a, src_b) ELSE SVB0_ENCODE8(m, src_a, src_b)

ENCODE1_x64(v, m, dw) ==
  IF IsSvb1(v) THEN _svb1_encode1_x64(m, dw) ELSE SVB0_ENCODE1(m, dw)

ENCODE1_generic(v, m, dw) ==
  IF IsSvb1(v) THEN _svb1_encode1_generic(m, dw) ELSE _svb0_encode1_generic(m, dw)

\* _mm_loadu_si128((__m128i*)&in[k]) at the current `in`
Load4(k) == in[ip + k + 1] \o in[ip + k + 2] \o in[ip + k + 3] \o in[ip + k + 4]

\* the tail's keys stored without the test count != 0
TailEntry_x64_always(cnt) ==
  [count |-> BitAnd(cnt, 7),
   pc |-> IF BitAnd(cnt, 7) # 0 THEN "tail" ELSE "keys"]

\* x64: what follows the chunk loops: count &= 7 and the scalar tail's entry
TailEntry_x64(cnt) ==
  [count |-> BitAnd(cnt, 7),
   pc |-> IF BitAnd(cnt, 7) # 0 THEN "tail" ELSE "finish"]

EncEntry_x64 ==
  /\ pc = "entry" /\ variant \in SvbVariants /\ build = "x64"
  /\ key_ptr' = 0
  /\ data_ptr' = ToInt(KeyBlockLen(variant, build, U64(count)))
  /\ IF count >= 8
     THEN /\ \E u \in UndefinedXmm :
               prev' = IF HasAnchor(variant) THEN _mm_insert_epi32(u, previous, 3)
                       ELSE prev
          /\ IF IsTranspose(variant) /\ AndNot(count, 63) # 0
             THEN pc' = "block64" /\ end' = AndNot(count, 63)
             ELSE /\ pc' = "chunk8"
                  /\ end' = IF IsTranspose(variant) THEN BitAnd(count, 56)
                            ELSE AndNot(count, 7)
          /\ count' = count
     ELSE /\ pc' = TailEntry_x64(count).pc
          /\ count' = TailEntry_x64(count).count
          /\ UNCHANGED << prev, end >>
  /\ UNCHANGED << callvars, fnvars, sizevars, decvars, ip, previous, keys, shift, i, out, enc_end,
                  st_hi, key_hi, data_lo, n_off, n_st, n_ld >>

\* one iteration of a loop over chunks of 8 elements
EncChunk8_x64 ==
  /\ pc = "chunk8"
  /\ LET src_a == Load4(0)
         src_b == Load4(4)
         f == Filter8(variant, src_a, src_b, prev)
         more == IF IsTranspose(variant) THEN ip + 8 # end ELSE ip + 8 < end
     IN /\ SetMem(ENCODE8(variant, Mem, f[1], f[2]))
        /\ prev' = IF HasAnchor(variant) THEN src_b ELSE prev
        /\ ip' = ip + 8
        /\ n_ld' = n_ld + 8
        /\ previous' = IF ~more /\ HasAnchor(variant)
                       THEN _mm_extract_epi32(src_b, 3) ELSE previous
        /\ pc' = IF more THEN "chunk8" ELSE TailEntry_x64(count).pc
        /\ count' = IF more THEN count ELSE TailEntry_x64(count).count
  /\ UNCHANGED << callvars, fnvars, sizevars, decvars, end, keys, shift, i, enc_end >>

\* the subtractions of one transposed 4x4 tile: each row minus the row before
\* it, the first row minus p
DeltaRows(t, p) ==
  << _mm_sub_epi32(t[1], p), _mm_sub_epi32(t[2], t[1]),
     _mm_sub_epi32(t[3], t[2]), _mm_sub_epi32(t[4], t[3]) >>

\* the sixteen difference rows of a block in the order they are encoded:
\* tile 0 against alignr(rF, prev, 12), then each tile against the bottom row
\* (temp / prev) of the tile before it
Block64Rows(t0, t1, t2, tF, pv) ==
  DeltaRows(t0, _mm_alignr_epi8(tF[4], pv, 12)) \o DeltaRows(t1, t0[4])
    \o DeltaRows(t2, t1[4]) \o DeltaRows(tF, t2[4])

\* the ENCODE8 calls of a block, on rows k and k + 1 and the pairs after them
RECURSIVE EncodeRows(_, _, _, _)
EncodeRows(v, m, rows, k) ==
  IF k > Len(rows) THEN m
  ELSE EncodeRows(v, ENCODE8(v, m, rows[k], rows[k + 1]), rows, k + 2)

\* the block loop keeping the anchor it was entered with
Block64Exit_stale(prev3) ==
  /\ prev' = prev
  /\ ip' = ip + 64
  /\ n_ld' = n_ld + 64
  /\ IF ip + 64 # end
     THEN pc' = "block64" /\ UNCHANGED << end, previous, count >>
     ELSE IF BitAnd(count, 56) # 0
     THEN pc' = "chunk8" /\ end' = ip + 64 + BitAnd(count, 56)
          /\ UNCHANGED << previous, count >>
     ELSE /\ previous' = _mm_extract_epi32(prev, 3)
          /\ pc' = TailEntry_x64(count).pc
          /\ count' = TailEntry_x64(count).count
          /\ end' = ip + 64

\* what the block loop leaves behind, prev3 being the last transposed row rF
Block64Exit(prev3) ==
  /\ prev' = prev3
  /\ ip' = ip + 64
  /\ n_ld' = n_ld + 64
  /\ IF ip + 64 # end
     THEN pc' = "block64" /\ UNCHANGED << end, previous, count >>
     ELSE IF BitAnd(count, 56) # 0
     THEN pc' = "chunk8" /\ end' = ip + 64 + BitAnd(count, 56)
          /\ UNCHANGED << previous, count >>
     ELSE /\ previous' = _mm_extract_epi32(prev3, 3)
          /\ pc' = TailEntry_x64(count).pc
          /\ count' = TailEntry_x64(count).count
          /\ end' = ip + 64

Block64Body(t0, t1, t2, tF) ==
  /\ SetMem(EncodeRows(variant, Mem, Block64Rows(t0, t1, t2, tF, prev), 1))
  /\ Block64Exit(tF[4])

\* svb1dt/svb0dt: one iteration of the loop over blocks of 64 elements
EncBlock64_x64 ==
  /\ pc = "block64"
  /\ Block64Body(SVB_TRANSPOSE(Load4(0), Load4(16), Load4(32), Load4(48)),
                 SVB_TRANSPOSE(Load4(4), Load4(20), Load4(36), Load4(52)),
                 SVB_TRANSPOSE(Load4(8), Load4(24), Load4(40), Load4(56)),
                 SVB_TRANSPOSE(Load4(12), Load4(28), Load4(44), Load4(60)))
  /\ UNCHANGED << callvars, fnvars, sizevars, decvars, keys, shift, i, enc_end >>

\* one iteration of the scalar tail loop
EncTail1_x64 ==
  /\ pc = "tail" /\ variant \in SvbVariants /\ build = "x64"
  /\ LET dw == Filter1(variant, in[ip + i + 1], previous)
         r == ENCODE1_x64(variant, Mem, dw)
     IN /\ SetMem(r.m)
        /\ keys' = BitOr(keys, r.code * (2 ^ (2 * i)))
        /\ previous' = IF HasAnchor(variant) THEN in[ip + i + 1] ELSE previous
  /\ i' = i + 1
  /\ n_ld' = n_ld + 1
  /\ pc' = IF i + 1 < count THEN "tail" ELSE "keys"
  /\ UNCHANGED << callvars, fnvars, sizevars, decvars, count, ip, end, prev, shift, enc_end >>

\* the store of the tail's keys
EncKeys_x64 ==
  /\ pc = "keys" /\ variant \in SvbVariants /\ build = "x64"
  /\ LET m1 == KeyStore(Mem, key_ptr, << keys % 256 >>)
         m2 == IF count > 4
               THEN KeyStore(m1, key_ptr + 1, << (keys \div 256) % 256 >>)
               ELSE m1
     IN SetMem(m2)
  /\ pc' = "finish"
  /\ UNCHANGED << callvars, fnvars, sizevars, decvars, count, ip, end, previous, prev, keys, shift, i,
                  enc_end, n_ld >>

\* return data_ptr
EncReturn ==
  /\ pc = "finish" /\ variant \in SvbVariants
  /\ enc_end' = data_ptr
  /\ pc' = "encoded"
  /\ UNCHANGED << callvars, fnvars, sizevars, decvars, count, ip, end, previous, prev, key_ptr, data_ptr,
                  keys, shift, i, out, st_hi, key_hi, data_lo, n_off, n_st, n_ld >>

(***************************************************************************)
(* The generic build's encoders                                            *)
(***************************************************************************)
\* *key_ptr++ = keys
GFlushKey(m, k) == [KeyStore(m, m.key_ptr, << k >>) EXCEPT !.key_ptr = @ + 1]

\* the body of the generic loops after the filter: encode dw (r is what the
\* encode1 call returns), advance the data cursor, and add the code to the
\* key byte or flush the full key byte
GStepWith(st, r) ==
  IF st.shift # 8
  THEN [m |-> r.m, keys |-> BitOr(st.keys, (r.code * (2 ^ st.shift)) % 256),
        shift |-> st.shift + 2]
  ELSE [m |-> GFlushKey(r.m, st.keys), keys |-> r.code, shift |-> 2]

GStep(v, st, dw) == GStepWith(st, ENCODE1_generic(v, st.m, dw))

\* the 2nd pass of a 64-element block: elements k..last, and from tile[k] on
\* in runs of eight
RECURSIVE GPassRun(_, _, _, _, _)
RECURSIVE GPassRunNext(_, _, _, _, _)
GPassRunNext(v, nxt, tile, k, last) ==
  IF nxt.shift <= 8 THEN GPassRun(v, nxt, tile, k + 1, last) ELSE nxt

GPassRun(v, st, tile, k, last) ==
  IF k > last THEN st
  ELSE GPassRunNext(v, GStep(v, st, tile[k]), tile, k, last)

RECURSIVE GPass2(_, _, _, _)
RECURSIVE GPass2Next(_, _, _, _)
GPass2Next(v, nxt, tile, k) ==
  IF nxt.shift <= 8 THEN GPass2(v, nxt, tile, k + 8) ELSE nxt

GPass2(v, st, tile, k) ==
  IF k > Len(tile) THEN st
  ELSE GPass2Next(v, GPassRun(v, st, tile, k, Min(k + 7, Len(tile))), tile, k)

\* the key byte left after the 2nd pass: *key_ptr++ = keys
GBlockFlush(st) == GFlushKey(st.m, st.keys)

\* the 1st pass without the permutation: tile[t] = in[t] - in[t-1]
GTile_rowmajor(p) ==
  [t \in 1..64 |->
     _delta_encode_32(in[ip + t], IF t = 1 THEN p ELSE in[ip + t - 1])]

\* the 1st pass: tile[i*4+j] = in[16*j+i] - (the element before it)
GTile(p) ==
  [t \in 1..64 |->
     LET e == 16 * ((t - 1) % 4) + ((t - 1) \div 4)
     IN _delta_encode_32(in[ip + e + 1], IF e = 0 THEN p ELSE in[ip + e])]

\* what follows the blocks: the entry of the loop over single elements
GLoopEntry(cnt) == IF cnt # 0 THEN "gloop" ELSE "finish"

EncEntry_generic ==
  /\ pc = "entry" /\ variant \in SvbVariants /\ build = "generic"
  /\ key_ptr' = 0
  /\ data_ptr' = ToInt(KeyBlockLen(variant, build, U64(count)))
  /\ IF IsTranspose(variant) /\ AndNot(count, 63) # 0
     THEN pc' = "gblock64" /\ end' = AndNot(count, 63)
     ELSE pc' = GLoopEntry(count) /\ end' = end
  /\ UNCHANGED << callvars, fnvars, sizevars, decvars, count, ip, previous, prev, keys, shift, i, out,
                  enc_end, st_hi, key_hi, data_lo, n_off, n_st, n_ld >>

\* svb1dt/svb0dt: one iteration of the loop over blocks of 64 elements
EncBlock64_generic ==
  /\ pc = "gblock64"
  /\ SetMem(GBlockFlush(GPass2(variant, [m |-> Mem, keys |-> 0, shift |-> 0],
                                GTile(previous), 1)))
  /\ ip' = ip + 64
  /\ n_ld' = n_ld + 64
  /\ previous' = in[ip + 64]
  /\ IF ip + 64 # end
     THEN pc' = "gblock64" /\ count' = count
     ELSE pc' = GLoopEntry(BitAnd(count, 63)) /\ count' = BitAnd(count, 63)
  /\ UNCHANGED << callvars, fnvars, sizevars, decvars, end, prev, keys, shift, i, enc_end >>

\* the state one iteration leaves: the stream, keys and shift
GLoopSet(st) ==
  /\ SetMem(st.m)
  /\ keys' = st.keys
  /\ shift' = st.shift

\* one iteration of the loop over single elements
EncLoop1_generic ==
  /\ pc = "gloop"
  /\ GLoopSet(GStep(variant, [m |-> Mem, keys |-> keys, shift |-> shift],
                    Filter1(variant, in[ip + i + 1], previous)))
  /\ previous' = IF HasAnchor(variant) THEN in[ip + i + 1] ELSE previous
  /\ i' = i + 1
  /\ n_ld' = n_ld + 1
  /\ pc' = IF i + 1 < count THEN "gloop" ELSE "gflush"
  /\ UNCHANGED << callvars, fnvars, sizevars, decvars, count, ip, end, prev, enc_end >>

\* the last key byte stored with its two highest bits set
EncFlush_generic_ones ==
  /\ pc = "gflush"
  /\ SetMem(KeyStore(Mem, key_ptr, << BitOr(keys, 192) >>))
  /\ pc' = "finish"
  /\ UNCHANGED << callvars, fnvars, sizevars, decvars, count, ip, end, previous, prev, keys, shift, i,
                  enc_end, n_ld >>

\* *key_ptr = keys
EncFlush_generic ==
  /\ pc = "gflush"
  /\ SetMem(KeyStore(Mem, key_ptr, << keys >>))
  /\ pc' = "finish"
  /\ UNCHANGED << callvars, fnvars, sizevars, decvars, count, ip, end, previous, prev, keys, shift, i,
                  enc_end, n_ld >>

(***************************************************************************)
(* short_enc (contrib/short_varint.c)                                      *)
(***************************************************************************)
\* the byte separation with the low bytes first
separate_swapped == << 0, 2, 4, 6, 8, 10, 12, 14, 1, 3, 5, 7, 9, 11, 13, 15 >>

\* _mm_set_epi8(14, 12, 10, 8, 6, 4, 2, 0, 15, 13, 11, 9, 7, 5, 3, 1)
separate == << 1, 3, 5, 7, 9, 11, 13, 15, 0, 2, 4, 6, 8, 10, 12, 14 >>
\* _mm_cvtsi64_si128(0x8989838381818080)
sadmask ==
  _mm_cvtsi64_si128(<< 128, 128, 129, 129, 131, 131, 137, 137 >>)
\* the key block stored without the bitwise not
neg1_zero == _mm_setzero_si128

neg1 == _mm_cmpeq_epi8(sadmask, sadmask)

\* table[27], each entry as the four bytes of the uint32_t
short_enc_table ==
  << << 1, 0, 0, 0 >>, << 3, 1, 0, 0 >>, << 3, 2, 1, 0 >>,
     << 5, 1, 0, 0 >>, << 5, 3, 1, 0 >>, << 5, 3, 2, 1 >>,
     << 5, 4, 1, 0 >>, << 5, 4, 3, 1 >>, << 21, 4, 3, 2 >>,
     << 7, 1, 0, 0 >>, << 7, 3, 1, 0 >>, << 7, 3, 2, 1 >>,
     << 7, 5, 1, 0 >>, << 7, 5, 3, 1 >>, << 23, 5, 3, 2 >>,
     << 7, 5, 4, 1 >>, << 23, 5, 4, 3 >>, << 39, 21, 4, 3 >>,
     << 7, 6, 1, 0 >>, << 7, 6, 3, 1 >>, << 23, 6, 3, 2 >>,
     << 7, 6, 5, 1 >>, << 23, 6, 5, 3 >>, << 39, 22, 5, 3 >>,
     << 23, 6, 5, 4 >>, << 55, 22, 5, 4 >>, << 55, 38, 21, 4 >> >>

\* _mm_loadu_si128 of eight uint16_t from element e on
Load8(e) ==
  [k \in 1..16 |-> IF k % 2 = 1 THEN in[e + ((k + 1) \div 2)] % 256
                   ELSE in[e + (k \div 2)] \div 256]

_mm_storel_epi64(v) == SubSeq(v, 1, 8)
_mm_storeh_pi(v) == SubSeq(v, 9, 16)

\* the body of the inner loop: one group of eight elements from element e on
ShortEnc8(st, e) ==
  LET src == _mm_shuffle_epi8(Load8(e), separate)
      mask == _mm_cmpeq_epi8(_mm_setzero_si128, src)
      pack == _mm_or_si128(_mm_and_si128(_mm_slli_epi16(src, 8), mask), src)
      desc == ToInt(_mm_cvtsi128_si64(
                _mm_sad_epu8(_mm_and_si128(mask, sadmask), sadmask)))
      shuf0 == _mm_cvtsi32_si128(short_enc_table[BitAnd(desc, 31) + 1])
      shuf == _mm_or_si128(_mm_slli_epi64(shuf0, 28), shuf0)
      m1 == Advance(DataStore(st.m, 0, _mm_storel_epi64(_mm_shuffle_epi8(pack, shuf))),
                    desc \div 128)
      m2 == Advance(DataStore(m1, 0, _mm_storeh_pi(src)), 8)
  IN [m |-> m2, keys |-> _mm_avg_epu8(st.keys, mask)]

RECURSIVE ShortEncInner(_, _, _)
ShortEncInner(st, e, k) ==
  IF k = 8 THEN st
  ELSE LET nxt == ShortEnc8(st, e + 8 * k)
       IN IF nxt.m.data_ptr >= 0 THEN ShortEncInner(nxt, e, k + 1) ELSE nxt

\* the tail loop's entry: uint64_t keys = 0, i = 0
ShortTailEntry(cnt) == IF cnt # 0 THEN "stail" ELSE "sflush"

EncEntry_short ==
  /\ pc = "entry" /\ variant = "short"
  /\ key_ptr' = 0
  /\ data_ptr' = ToInt(Shr64(Add64(U64(count), U64(7)), 3))
  /\ keys' = U64(0)
  /\ pc' = IF count >= 64 THEN "sblock64" ELSE ShortTailEntry(count)
  /\ UNCHANGED << callvars, fnvars, sizevars, decvars, count, ip, end, previous, prev, shift, i, out,
                  enc_end, st_hi, key_hi, data_lo, n_off, n_st, n_ld >>

\* one iteration of the loop over blocks of 64 elements
EncBlock64_short ==
  /\ pc = "sblock64"
  /\ LET st == ShortEncInner([m |-> Mem, keys |-> _mm_setzero_si128], ip, 0)
         m1 == KeyStore(st.m, st.m.key_ptr,
                        _mm_storel_epi64(_mm_xor_si128(st.keys, neg1)))
     IN SetMem([m1 EXCEPT !.key_ptr = @ + 8])
  /\ ip' = ip + 64
  /\ n_ld' = n_ld + 64
  /\ count' = count - 64
  /\ pc' = IF count - 64 >= 64 THEN "sblock64" ELSE ShortTailEntry(count - 64)
  /\ UNCHANGED << callvars, fnvars, sizevars, decvars, end, previous, prev, keys, shift, i, enc_end >>

\* one iteration of the tail loop
EncTail1_short ==
  /\ pc = "stail"
  /\ LET w == in[ip + i + 1]
         k == (w + 65280) \div 65536
     IN /\ SetMem(Advance(DataStore(Mem, 0, svb_storeu_u16(w)), 1 + k))
        /\ keys' = Or64(keys, Shl64(U64(k), i))
  /\ i' = i + 1
  /\ n_ld' = n_ld + 1
  /\ pc' = IF i + 1 < count THEN "stail" ELSE "sflush"
  /\ UNCHANGED << callvars, fnvars, sizevars, decvars, count, ip, end, previous, prev, shift, enc_end >>

\* memcpy(out, &keys, (count + 7) >> 3); return data
EncFlush_short ==
  /\ pc = "sflush"
  /\ LET len == (count + 7) \div 8
     IN SetMem(IF len = 0 THEN Mem ELSE KeyStore(Mem, key_ptr, SubSeq(keys, 1, len)))
  /\ enc_end' = data_ptr
  /\ pc' = "encoded"
  /\ UNCHANGED << callvars, fnvars, sizevars, decvars, count, ip, end, previous, prev, keys, shift, i, n_ld >>

(***************************************************************************)
(* short_dec (contrib/short_varint.c)                                      *)
(***************************************************************************)
\* the decoder's view of its buffers and cursors
DMem ==
  [buf2 |-> buf2, d_in |-> d_in, d_data |-> d_data, d_op |-> d_op,
   rd_lo |-> rd_lo, rd_hi |-> rd_hi, wr_hi |-> wr_hi, n_wr |-> n_wr]

SetDMem(d) ==
  /\ buf2' = d.buf2
  /\ d_in' = d.d_in
  /\ d_data' = d.d_data
  /\ d_op' = d.d_op
  /\ rd_lo' = d.rd_lo
  /\ rd_hi' = d.rd_hi
  /\ wr_hi' = d.wr_hi
  /\ n_wr' = d.n_wr

\* n bytes of the stream from offset p on (outside the buffer: its fill)
LoadBytes(p, n) ==
  [k \in 1..n |-> IF p + k >= 1 /\ p + k <= Len(out) THEN out[p + k] ELSE Fill1]

\* the record of a load of n bytes at stream offset p
Loaded(d, p, n) == [d EXCEPT !.rd_lo = Min(@, p), !.rd_hi = Max(@, p + n)]

\* a store of bytes at buf2 offset d_op + off
OutStore(d, off, bytes) ==
  [d EXCEPT !.buf2 = StoreBytes(@, d.d_op + off, bytes),
            !.wr_hi = Max(@, d.d_op + off + Len(bytes)),
            !.n_wr = @ + 1]

kx01 == << 1, 1, 1, 1, 1, 1, 1, 1 >>
\* the multiplier without the bit that carries the key into the sign bit
kmul_nosign == kx01
kmul == Or64(kx01, U64(128))
kx88 == Mul64(kx01, U64(136))
\* _mm_cvtsi64_si128(0x0F0E0D0C0B0A0908)
idx == _mm_cvtsi64_si128(<< 8, 9, 10, 11, 12, 13, 14, 15 >>)

\* the inner loop's body with the 16-byte load taken at the group's start
ShortDec8_ahead(st) ==
  LET rank == Mul64(And64(st.keys, kx01), kmul)
      len == 8 + ToInt(Shr64(Add64(rank, rank), 57))
      data == st.d.d_data + len
      shuf == _mm_unpacklo_epi8(idx, _mm_cvtsi64_si128(Sub64(kx88, rank)))
      src == LoadBytes(data + 16 - len, 16)
      d1 == Loaded([st.d EXCEPT !.d_data = data], data + 16 - len, 16)
      d2 == OutStore(d1, 0, _mm_shuffle_epi8(src, shuf))
  IN [d |-> [d2 EXCEPT !.d_op = @ + 16], keys |-> Shr64(st.keys, 1)]

\* the body of the inner loop: one group of eight elements
ShortDec8(st) ==
  LET rank == Mul64(And64(st.keys, kx01), kmul)
      len == 8 + ToInt(Shr64(Add64(rank, rank), 57))
      data == st.d.d_data + len
      shuf == _mm_unpacklo_epi8(idx, _mm_cvtsi64_si128(Sub64(kx88, rank)))
      src == LoadBytes(data, 16)
      d1 == Loaded([st.d EXCEPT !.d_data = data], data, 16)
      d2 == OutStore(d1, 0, _mm_shuffle_epi8(src, shuf))
  IN [d |-> [d2 EXCEPT !.d_op = @ + 16], keys |-> Shr64(st.keys, 1)]

RECURSIVE ShortDecInner(_, _)
ShortDecInner(st, k) ==
  IF k = 8 THEN st
  ELSE LET nxt == ShortDec8(st)
       IN IF nxt.d.d_op >= 0 THEN ShortDecInner(nxt, k + 1) ELSE nxt

\* a tail loop entered without testing i < count
ShortDecTailEntry_dowhile(cnt) == "sdtail"
ShortDecTailEntry(cnt) == IF 0 < cnt THEN "sdtail" ELSE "sdreturn"

DecEntry_short ==
  /\ pc = "encoded" /\ variant = "short"
  /\ LET data == ToInt(Shr64(Add64(U64(d_count), U64(7)), 3))
     IN IF d_count >= 64
        THEN d_data' = data - 16 /\ pc' = "sdblock64"
        ELSE d_data' = data /\ pc' = ShortDecTailEntry(d_count)
  /\ d_keys' = 0
  /\ d_i' = 0
  /\ UNCHANGED << callvars, fnvars, sizevars, encvars, d_in, d_op, d_count, d_prev, buf2,
                  dec_end, rd_lo, rd_hi, wr_hi, n_wr >>

\* one iteration of the loop over blocks of 64 elements
DecBlock64_short ==
  /\ pc = "sdblock64"
  /\ LET keys0 == LoadBytes(d_in, 8)
         d0 == Loaded([DMem EXCEPT !.d_in = @ + 8], d_in, 8)
         st == ShortDecInner([d |-> d0, keys |-> keys0], 0)
         more == d_count - 64 >= 64
     IN /\ SetDMem(IF more THEN st.d ELSE [st.d EXCEPT !.d_data = @ + 16])
        /\ pc' = IF more THEN "sdblock64" ELSE ShortDecTailEntry(d_count - 64)
  /\ d_count' = d_count - 64
  /\ UNCHANGED << callvars, fnvars, sizevars, encvars, d_keys, d_i, d_prev, dec_end >>

\* one iteration of the tail loop
DecTail1_short ==
  /\ pc = "sdtail"
  /\ LET fetch == BitAnd(d_i, 7) = 0
         d0 == IF fetch THEN Loaded([DMem EXCEPT !.d_in = @ + 1], d_in, 1) ELSE DMem
         k == IF fetch THEN LoadBytes(d_in, 1)[1] ELSE d_keys
         two == BitAnd(k, 1) = 1
         d1 == IF two
               THEN OutStore(Loaded(d0, d_data, 2), 2 * d_i, LoadBytes(d_data, 2))
               ELSE OutStore(Loaded(d0, d_data, 1), 2 * d_i,
                             << LoadBytes(d_data, 1)[1], 0 >>)
     IN /\ SetDMem([d1 EXCEPT !.d_data = @ + (IF two THEN 2 ELSE 1)])
        /\ d_keys' = k \div 2
  /\ d_i' = d_i + 1
  /\ pc' = IF d_i + 1 < d_count THEN "sdtail" ELSE "sdreturn"
  /\ UNCHANGED << callvars, fnvars, sizevars, encvars, d_count, d_prev, dec_end >>

\* return data
DecReturn_short ==
  /\ pc = "sdreturn"
  /\ dec_end' = d_data
  /\ pc' = "done"
  /\ UNCHANGED << callvars, fnvars, sizevars, encvars, d_in, d_data, d_op, d_count, d_keys, d_i,
                  d_prev, buf2, rd_lo, rd_hi, wr_hi, n_wr >>

(***************************************************************************)
(* The ten SVB decoders, after the specification's section 4.3: groups of  *)
(* eight elements by keyword, 64-element blocks for the dt variants, and a *)
(* scalar tail                                                             *)
(***************************************************************************)
\* payload length of a 2-bit key
KeyLen(v, key) == IF IsSvb1(v) THEN key + 1 ELSE << 0, 1, 2, 4 >>[key + 1]

\* key number j (0..3) of a key byte, LSB first
KeyOf(kb, j) == (kb \div (2 ^ (2 * j))) % 4

\* data bytes consumed by the first j keys of a key byte
HalfLen(v, kb, j) ==
  LET RECURSIVE upto(_)
      upto(n) == IF n = 0 THEN 0 ELSE upto(n - 1) + KeyLen(v, KeyOf(kb, n - 1))
  IN upto(j)

\* lane j of a 16-byte pack shuffled by the permutation of key byte kb: the
\* lane's payload bytes in their low positions, zeros above
DecLane(v, pack, kb, j) ==
  [b \in 1..4 |-> IF b <= KeyLen(v, KeyOf(kb, j)) THEN pack[HalfLen(v, kb, j) + b]
                  ELSE 0]

\* the inverse filter of one value
Unfilter1(v, x, p) ==
  IF IsZigzag(v) THEN _zigzag_decode_32(x)
  ELSE IF IsDelta(v) THEN _delta_decode_32(x, p)
  ELSE IF IsDeltaZigzag(v) THEN _delta_zigzag_decode_32(x, p)
  ELSE x

\* the inverse filter along a sequence of raw values, threading prev:
\* elements k..last appended to acc, and from raw[k] on in runs of eight
RECURSIVE UnfilterRun(_, _, _, _, _, _)
UnfilterRun(v, raw, p, k, last, acc) ==
  IF k > last THEN acc
  ELSE LET x == Unfilter1(v, raw[k], p)
       IN IF x[1] >= 0 THEN UnfilterRun(v, raw, x, k + 1, last, Append(acc, x))
          ELSE acc

RECURSIVE UnfilterFrom(_, _, _, _, _)
UnfilterFrom(v, raw, p, k, acc) ==
  IF k > Len(raw) THEN acc
  ELSE LET nxt == UnfilterRun(v, raw, p, k, Min(k + 7, Len(raw)), acc)
       IN IF Len(nxt) > 0 THEN UnfilterFrom(v, raw, nxt[Len(nxt)], k + 8, nxt)
          ELSE acc

UnfilterSeq(v, raw, p) == UnfilterFrom(v, raw, p, 1, << >>)

\* one 4-element half: load 16 bytes at the data cursor, advance by the length
DecHalf(v, d, kb) ==
  LET pack == LoadBytes(d.d_data, 16)
      d1 == Loaded(d, d.d_data, 16)
  IN [d |-> [d1 EXCEPT !.d_data = @ + HalfLen(v, kb, 4)],
      lanes |-> [j \in 1..4 |-> DecLane(v, pack, kb, j - 1)]]

\* one keyword: two key bytes at the key cursor and two halves
DecGroup8(v, d) ==
  LET kw == LoadBytes(d.d_in, 2)
      d0 == Loaded([d EXCEPT !.d_in = @ + 2], d.d_in, 2)
      a == DecHalf(v, d0, kw[1])
      b == DecHalf(v, a.d, kw[2])
  IN [d |-> b.d, lanes |-> a.lanes \o b.lanes]

\* k groups of eight: the raw values in stream order
RECURSIVE DecGroups(_, _, _)
DecGroups(v, st, k) ==
  IF k = 0 THEN st
  ELSE LET g == DecGroup8(v, st.d)
       IN IF g.d.d_data >= 0
          THEN DecGroups(v, [d |-> g.d, lanes |-> st.lanes \o g.lanes], k - 1)
          ELSE st

\* the store of decoded values as 16-byte packs of four lanes
RECURSIVE StorePacks(_, _, _)
StorePacks(d, vals, k) ==
  IF k > Len(vals) THEN d
  ELSE LET d1 == OutStore(d, 0, vals[k] \o vals[k + 1] \o vals[k + 2] \o vals[k + 3])
       IN IF d1.n_wr >= 0 THEN StorePacks([d1 EXCEPT !.d_op = @ + 16], vals, k + 4)
          ELSE d1

\* the position in the stream of element e (0..63) of a transposed block
TilePos(e) == 4 * (e % 16) + (e \div 16)

\* the raw values of a block in element order
Untile(lanes) == [e \in 1..64 |-> lanes[TilePos(e - 1) + 1]]

\* what follows a block or a group: blocks, then groups of 8, then the tail
DecAfter(v, cnt) ==
  IF IsTranspose(v) /\ cnt >= 64 THEN "dblock64"
  ELSE IF cnt >= 8 THEN "dchunk8"
  ELSE IF cnt # 0 THEN "dtail"
  ELSE "dreturn"

DecEntry_svb ==
  /\ pc = "encoded" /\ variant \in SvbVariants
  /\ d_in' = 0
  /\ d_data' = ToInt(_svb_key_block_len(U64(d_count)))
  /\ d_prev' = anchor
  /\ d_i' = 0
  /\ pc' = DecAfter(variant, d_count)
  /\ UNCHANGED << callvars, fnvars, sizevars, encvars, d_op, d_count, d_keys, buf2, dec_end,
                  rd_lo, rd_hi, wr_hi, n_wr >>

\* dt: one block of 64 elements
DecBlock64_svb ==
  /\ pc = "dblock64"
  /\ LET st == DecGroups(variant, [d |-> DMem, lanes |-> << >>], 8)
         raw == Untile(st.lanes)
         vals == UnfilterSeq(variant, raw, d_prev)
     IN /\ SetDMem(StorePacks(st.d, vals, 1))
        /\ d_prev' = vals[64]
  /\ d_count' = d_count - 64
  /\ pc' = DecAfter(variant, d_count - 64)
  /\ UNCHANGED << callvars, fnvars, sizevars, encvars, d_keys, d_i, dec_end >>

\* one group of eight elements
DecChunk8_svb ==
  /\ pc = "dchunk8"
  /\ LET g == DecGroup8(variant, DMem)
         vals == UnfilterSeq(variant, g.lanes, d_prev)
     IN /\ SetDMem(StorePacks(g.d, vals, 1))
        /\ d_prev' = IF HasAnchor(variant) THEN vals[8] ELSE d_prev
  /\ d_count' = d_count - 8
  /\ pc' = IF d_count - 8 >= 8 THEN "dchunk8"
           ELSE IF d_count - 8 # 0 THEN "dtail" ELSE "dreturn"
  /\ UNCHANGED << callvars, fnvars, sizevars, encvars, d_keys, d_i, dec_end >>

\* one element of the scalar tail
DecTail1_svb ==
  /\ pc = "dtail"
  /\ LET kb == LoadBytes(d_in + (d_i \div 4), 1)[1]
         len == KeyLen(variant, KeyOf(kb, d_i % 4))
         bytes == LoadBytes(d_data, len)
         x == [b \in 1..4 |-> IF b <= len THEN bytes[b] ELSE 0]
         val == Unfilter1(variant, x, d_prev)
         d1 == Loaded(Loaded(DMem, d_in + (d_i \div 4), 1), d_data, len)
         d2 == OutStore(d1, 4 * d_i, val)
     IN /\ SetDMem([d2 EXCEPT !.d_data = @ + len])
        /\ d_prev' = IF HasAnchor(variant) THEN val ELSE d_prev
  /\ d_i' = d_i + 1
  /\ pc' = IF d_i + 1 < d_count THEN "dtail" ELSE "dreturn"
  /\ UNCHANGED << callvars, fnvars, sizevars, encvars, d_count, d_keys, dec_end >>

\* the decoder returns its data cursor
DecReturn_svb ==
  /\ pc = "dreturn"
  /\ dec_end' = d_data
  /\ pc' = "done"
  /\ UNCHANGED << callvars, fnvars, sizevars, encvars, d_in, d_data, d_op, d_count, d_keys, d_i,
                  d_prev, buf2, rd_lo, rd_hi, wr_hi, n_wr >>

(***************************************************************************)
(* Calls with a count of the full width of size_t: the bound the test      *)
(* computes and the first statements of each encoder and of short_dec      *)
(***************************************************************************)
MaxDelta == 4
BigExps == { 32, 34, 40, 61 }
BigCounts ==
  { U64(d) : d \in 0..MaxDelta }
  \cup { Add64(Shl64(U64(1), e), U64(d)) : e \in BigExps, d \in 0..MaxDelta }

SizeInit ==
  /\ variant \in Variants
  /\ build \in Builds(variant)
  /\ N = 0
  /\ in = << >>
  /\ anchor = U32(0)
  /\ LocalsInit
  /\ big_pc = "entry"
  /\ big_count \in BigCounts
  /\ big_bound = U64(0)
  /\ big_start = U64(0)
  /\ FnIdle

\* max_len = streamvbyte_compress_bound(i) / short_compress_bound(i)
SizeBound ==
  /\ big_pc = "entry"
  /\ big_bound' = IF variant = "short" THEN short_compress_bound(big_count)
                  ELSE streamvbyte_compress_bound(big_count)
  /\ big_pc' = "bounded"
  /\ UNCHANGED << callvars, fnvars, pc, encvars, decvars, big_count, big_start >>

\* key_block_len = _svb_key_block_len(count); data_ptr = &out[key_block_len]
SizeStart_svb ==
  /\ big_pc = "bounded" /\ variant \in SvbVariants
  /\ big_start' = KeyBlockLen(variant, build, big_count)
  /\ big_pc' = "started"
  /\ UNCHANGED << callvars, fnvars, pc, encvars, decvars, big_count, big_bound >>

\* data = &out[((uint64_t)count + 7) >> 3], in short_enc and in short_dec
SizeStart_short ==
  /\ big_pc = "bounded" /\ variant = "short"
  /\ big_start' = Shr64(Add64(big_count, U64(7)), 3)
  /\ big_pc' = "started"
  /\ UNCHANGED << callvars, fnvars, pc, encvars, decvars, big_count, big_bound >>

SizeNext == SizeBound \/ SizeStart_svb \/ SizeStart_short

SizeSpec == SizeInit /\ [][SizeNext]_vars

(***************************************************************************)
(* The helpers applied to one value: the three key computations of each    *)
(* format and the scalar filters with their inverses.                      *)
(***************************************************************************)
EdgeBytes == { 0, 1, 127, 128, 255 }
Values32 == { << a, b, c, d >> : a, b, c, d \in EdgeBytes }
Fills32 == { U32(0), << 255, 255, 255, 255 >> }
Prevs32 == { U32(0), U32(42), << 255, 255, 255, 255 >>, << 0, 0, 0, 128 >> }

FnInit ==
  /\ variant = "svb1"
  /\ build = "x64"
  /\ N = 0
  /\ in = << >>
  /\ anchor = U32(0)
  /\ LocalsInit
  /\ big_pc = "idle"
  /\ big_count = U64(0)
  /\ big_bound = U64(0)
  /\ big_start = U64(0)
  /\ f_pc = "arg"
  /\ f_v \in Values32
  /\ f_p = U32(0)
  /\ f_lane = 0
  /\ f_fill = U32(0)
  /\ f_key = 0
  /\ f_len = 0
  /\ f_res = U32(0)

\* a stream with room for one ENCODE8: two key bytes, then the data block
FnMem ==
  [out |-> [k \in 1..50 |-> Fill1], key_ptr |-> 0, data_ptr |-> 2, st_hi |-> 0,
   key_hi |-> 0, data_lo |-> 50, n_off |-> 0, n_st |-> 0]

\* src_a or src_b: lanes 4h..4h+3 of eight values, x in lane l, fill elsewhere
FnSrc(x, l, fill, h) ==
  FromLanes(IF l = 4 * h THEN x ELSE fill, IF l = 4 * h + 1 THEN x ELSE fill,
            IF l = 4 * h + 2 THEN x ELSE fill, IF l = 4 * h + 3 THEN x ELSE fill)

\* the key of lane l in the keyword ENCODE8 stored, and the cursor's advance
FnSet8(m, l, fill, name) ==
  /\ f_key' = ((m.out[1] + 256 * m.out[2]) \div (4 ^ l)) % 4
  /\ f_len' = m.data_ptr - 2
  /\ f_lane' = l
  /\ f_fill' = fill
  /\ f_pc' = name
  /\ UNCHANGED << f_v, f_p, f_res >>

\* the code an encode1 helper returned and the cursor's advance
FnSet1(r, name) ==
  /\ f_key' = r.code
  /\ f_len' = r.m.data_ptr - 2
  /\ f_pc' = name
  /\ UNCHANGED << f_v, f_p, f_lane, f_fill, f_res >>

Fn_SVB1_ENCODE8 ==
  /\ f_pc = "arg"
  /\ \E l \in 0..7, fill \in Fills32 :
       FnSet8(SVB1_ENCODE8(FnMem, FnSrc(f_v, l, fill, 0), FnSrc(f_v, l, fill, 1)),
              l, fill, "SVB1_ENCODE8")
  /\ UNCHANGED << callvars, pc, encvars, decvars, sizevars >>

Fn_svb1_encode1_x64 ==
  /\ f_pc = "arg"
  /\ FnSet1(_svb1_encode1_x64(FnMem, f_v), "_svb1_encode1_x64")
  /\ UNCHANGED << callvars, pc, encvars, decvars, sizevars >>

Fn_svb1_encode1_generic ==
  /\ f_pc = "arg"
  /\ FnSet1(_svb1_encode1_generic(FnMem, f_v), "_svb1_encode1_generic")
  /\ UNCHANGED << callvars, pc, encvars, decvars, sizevars >>

Fn_SVB0_ENCODE8 ==
  /\ f_pc = "arg"
  /\ \E l \in 0..7, fill \in Fills32 :
       FnSet8(SVB0_ENCODE8(FnMem, FnSrc(f_v, l, fill, 0), FnSrc(f_v, l, fill, 1)),
              l, fill, "SVB0_ENCODE8")
  /\ UNCHANGED << callvars, pc, encvars, decvars, sizevars >>

Fn_SVB0_ENCODE1 ==
  /\ f_pc = "arg"
  /\ FnSet1(SVB0_ENCODE1(FnMem, f_v), "SVB0_ENCODE1")
  /\ UNCHANGED << callvars, pc, encvars, decvars, sizevars >>

Fn_svb0_encode1_generic ==
  /\ f_pc = "arg"
  /\ FnSet1(_svb0_encode1_generic(FnMem, f_v), "_svb0_encode1_generic")
  /\ UNCHANGED << callvars, pc, encvars, decvars, sizevars >>

\* a filter followed by its inverse
Fn_zigzag ==
  /\ f_pc = "arg"
  /\ f_res' = _zigzag_decode_32(_zigzag_encode_32(f_v))
  /\ f_pc' = "zigzag"
  /\ UNCHANGED << f_v, f_p, f_lane, f_fill, f_key, f_len >>
  /\ UNCHANGED << callvars, pc, encvars, decvars, sizevars >>

Fn_delta ==
  /\ f_pc = "arg"
  /\ \E p \in Prevs32 :
       /\ f_p' = p
       /\ f_res' = _delta_decode_32(_delta_encode_32(f_v, p), p)
  /\ f_pc' = "delta"
  /\ UNCHANGED << f_v, f_lane, f_fill, f_key, f_len >>
  /\ UNCHANGED << callvars, pc, encvars, decvars, sizevars >>

Fn_delta_zigzag ==
  /\ f_pc = "arg"
  /\ \E p \in Prevs32 :
       /\ f_p' = p
       /\ f_res' = _delta_zigzag_decode_32(_delta_zigzag_encode_32(f_v, p), p)
  /\ f_pc' = "delta_zigzag"
  /\ UNCHANGED << f_v, f_lane, f_fill, f_key, f_len >>
  /\ UNCHANGED << callvars, pc, encvars, decvars, sizevars >>

FnNext ==
  Fn_SVB1_ENCODE8 \/ Fn_svb1_encode1_x64 \/ Fn_svb1_encode1_generic
    \/ Fn_SVB0_ENCODE8 \/ Fn_SVB0_ENCODE1 \/ Fn_svb0_encode1_generic
    \/ Fn_zigzag \/ Fn_delta \/ Fn_delta_zigzag

FnSpec == FnInit /\ [][FnNext]_vars

Next == EncEntry_x64 \/ EncChunk8_x64 \/ EncBlock64_x64 \/ EncTail1_x64
          \/ EncKeys_x64 \/ EncEntry_generic \/ EncBlock64_generic
          \/ EncLoop1_generic \/ EncFlush_generic \/ EncReturn
          \/ EncEntry_short \/ EncBlock64_short \/ EncTail1_short \/ EncFlush_short
          \/ DecEntry_short \/ DecBlock64_short \/ DecTail1_short \/ DecReturn_short
          \/ DecEntry_svb \/ DecBlock64_svb \/ DecChunk8_svb \/ DecTail1_svb
          \/ DecReturn_svb

Spec == Init /\ [][Next]_vars

(***************************************************************************)
(* Properties                                                              *)
(***************************************************************************)
\* the input array as the bytes memcmp compares
InBytes ==
  IF variant = "short"
  THEN [k \in 1..(2 * N) |-> IF k % 2 = 1 THEN in[(k + 1) \div 2] % 256
                             ELSE in[k \div 2] \div 256]
  ELSE [k \in 1..(4 * N) |-> in[((k - 1) \div 4) + 1][((k - 1) % 4) + 1]]

Encoded == enc_end # -1
Decoded == pc = "done"
IsSvb == variant \in SvbVariants

\* C1: for each of the ten SVB variants, every count, input and anchor, the
\* decoder's output for the encoder's stream is the input array.
C1_RoundTrip32 ==
  (Decoded /\ IsSvb) => SubSeq(buf2, 1, 4 * N) = InBytes

\* a dt round trip through blocks, chunks of 8 and a scalar tail, anchor 42
C1_Witness ==
  /\ Decoded /\ variant = "svb0dt" /\ build = "x64"
  /\ N = 64 * MaxBlocks + 13 /\ anchor = U32(42)
  /\ in = Periodic(Edges32, 0, N)
  /\ SubSeq(buf2, 1, 4 * N) = InBytes

\* C2: short_dec reproduces the array short_enc was given and returns the
\* pointer short_enc returned.
C2_RoundTripShort ==
  (Decoded /\ variant = "short") =>
     /\ SubSeq(buf2, 1, 2 * N) = InBytes
     /\ dec_end = enc_end

\* a short round trip through a 64-element block and a tail of 13
C2_Witness ==
  /\ Decoded /\ variant = "short" /\ N = 64 + 13
  /\ in = Periodic(Edges16, 1, N)
  /\ SubSeq(buf2, 1, 2 * N) = InBytes
  /\ dec_end = enc_end /\ enc_end > 0

\* C3: for each SVB variant the decoder returns the offset the encoder
\* returned.
C3_LengthAgree ==
  (Decoded /\ IsSvb) => enc_end = dec_end

\* a zigzag stream of nine elements whose two ends agree
C3_Witness ==
  /\ Decoded /\ variant = "svb1z" /\ build = "generic" /\ N = 9
  /\ in = Periodic(Edges32, 1, N)
  /\ enc_end = dec_end /\ enc_end > 3

\* C4: every store of every encoder ends at or before compress_bound(N), the
\* returned end is at most compress_bound(N), and the byte at offset
\* compress_bound(N) keeps the value it was filled with.
C4_EncWriteBound ==
  /\ st_hi <= Bound(variant, N)
  /\ key_hi <= Bound(variant, N)
  /\ (n_st > 0 => data_lo >= 0)
  /\ (Encoded => enc_end >= 0 /\ enc_end <= Bound(variant, N))
  /\ out[Bound(variant, N) + 1] = Fill1

\* an encoder that stored bytes past the end it returns, within the bound
C4_Witness ==
  /\ Encoded /\ variant = "svb0" /\ build = "x64" /\ N = 9
  /\ st_hi > enc_end /\ st_hi <= Bound(variant, N)

\* C5: every store of every decoder ends at or before output byte
\* N * elem_size, and the byte at that offset keeps its fill.
C5_DecWriteBound ==
  /\ wr_hi <= ElemSize(variant) * N
  /\ buf2[ElemSize(variant) * N + 1] = Fill2

\* decoders that stored their last element exactly at the end
C5_Witness ==
  /\ Decoded /\ variant = "short" /\ N = 64 + 1 /\ n_wr = 9
  /\ wr_hi = 2 * N

\* C6: every load of short_dec lies within [in, end), end being the pointer
\* it returns.
C6_ShortReadBound ==
  (Decoded /\ variant = "short" /\ rd_hi > 0) =>
     /\ rd_lo >= 0
     /\ rd_hi <= dec_end

\* a block path whose last 16-byte load ends exactly at the returned end
C6_Witness ==
  /\ Decoded /\ variant = "short" /\ N = 64 * MaxBlocks
  /\ in = Periodic(Zeros16, 0, N)
  /\ rd_lo = 0 /\ rd_hi = dec_end

\* payload length of a value by its magnitude
PayloadLen(v, x) ==
  IF IsSvb1(v)
  THEN 1 + (IF Gt_FF(x) THEN 1 ELSE 0) + (IF Gt_FFFF(x) THEN 1 ELSE 0)
         + (IF Gt_FFFFFF(x) THEN 1 ELSE 0)
  ELSE IF IsZero32(x) THEN 0
  ELSE IF ~Gt_FF(x) THEN 1
  ELSE IF ~Gt_FFFF(x) THEN 2
  ELSE 4

\* the filtered value of element e (1..N)
FilteredAt(e) == Filter1(variant, in[e], IF e = 1 THEN anchor ELSE in[e - 1])

\* the sum of the payload lengths of elements lo..hi
RECURSIVE SumLen(_, _)
SumLen(lo, hi) ==
  IF lo > hi THEN 0
  ELSE IF lo = hi THEN PayloadLen(variant, FilteredAt(lo))
  ELSE SumLen(lo, (lo + hi) \div 2) + SumLen(((lo + hi) \div 2) + 1, hi)

\* C7: the end an SVB encoder returns is (N+3)>>2 plus the sum of the payload
\* lengths of the N filtered values.
C7_ExactLength ==
  (Encoded /\ IsSvb) => enc_end = ((N + 3) \div 4) + SumLen(1, N)

\* vector chunks and a tail whose stores reach past a stream shorter than the
\* bound
C7_Witness ==
  /\ Encoded /\ variant = "svb0d" /\ build = "x64" /\ N = 17
  /\ in = Periodic(Edges32, 0, N)
  /\ enc_end < Bound(variant, N) /\ st_hi > enc_end
  /\ enc_end = ((N + 3) \div 4) + SumLen(1, N)

\* C8: with N = 0 an encoder stores nothing, loads nothing and returns the
\* output pointer it was given.
C8_EmptyInput ==
  N = 0 =>
     /\ n_st = 0 /\ n_ld = 0 /\ st_hi = 0
     /\ out = [k \in 1..Slack |-> Fill1]
     /\ (Encoded => enc_end = 0)

\* an encoder that returned from a call with N = 0 and a nonzero anchor
C8_Witness ==
  /\ N = 0 /\ Encoded /\ variant = "svb1dt" /\ build = "x64"
  /\ anchor = U32(42) /\ enc_end = 0

\* the arrays that drive each encoder to its bound
IsTightInput ==
  IF variant = "short" THEN in = Periodic(Tight16, 0, N)
  ELSE in = Periodic(Tight32, 0, N) /\ anchor = U32(0)

\* C9: the bounds are ((N+3)>>2) + 4N and 2N + ((N+7)>>3), no stream is
\* longer than its bound, and for every N some array is encoded to exactly
\* the bound.
C9_TightBounds ==
  /\ Bound(variant, N) = (IF variant = "short" THEN 2 * N + ((N + 7) \div 8)
                          ELSE ((N + 3) \div 4) + 4 * N)
  /\ (Encoded => enc_end <= Bound(variant, N))
  /\ (Encoded /\ IsTightInput => enc_end = Bound(variant, N))

\* a filtered variant whose stream fills the bound
C9_Witness ==
  /\ Encoded /\ variant = "svb0dt" /\ build = "generic" /\ N = 64 + 13
  /\ IsTightInput
  /\ enc_end = Bound(variant, N) /\ enc_end = 328

\* a / d on 64 bits by long division from the most significant byte, d < 256
RECURSIVE DivFrom(_, _, _, _)
DivFrom(a, d, k, rem) ==
  IF k = 0 THEN << >>
  ELSE LET cur == rem * 256 + a[k]
       IN DivFrom(a, d, k - 1, cur % d) \o << cur \div d >>
Div64(a, d) == DivFrom(a, d, 8, 0)

\* ceil(a / d) without the addition of d - 1
CeilDiv64(a, d) ==
  IF Mul64(Div64(a, d), U64(d)) = a THEN Div64(a, d)
  ELSE Add64(Div64(a, d), U64(1))

\* C10: in every SVB encoder the data block starts at ceil(N/4), and in the
\* short codec at ceil(N/8), for every count whose bound does not overflow.
C10_DataStart ==
  big_pc = "started" =>
     big_start = CeilDiv64(big_count, IF variant = "short" THEN 8 ELSE 4)

\* the variants that keep the key-block length in a size_t start their data
\* block at ceil(N/4) also for N >= 2^34
C10_Witness ==
  /\ big_pc = "started" /\ variant = "svb1d" /\ build = "x64"
  /\ big_count = Shl64(U64(1), 34)
  /\ big_start = Shl64(U64(1), 32)

(***************************************************************************)
(* Keys of single values and the filter inverses (FnSpec)                  *)
(***************************************************************************)
\* the "1234" key of a value by its highest non-zero byte
Svb1KeyOf(x) ==
  IF x[4] # 0 THEN 3 ELSE IF x[3] # 0 THEN 2 ELSE IF x[2] # 0 THEN 1 ELSE 0

\* the "0124" key of a value
Svb0KeyOf(x) ==
  IF x[4] # 0 \/ x[3] # 0 THEN 3 ELSE IF x[2] # 0 THEN 2 ELSE IF x[1] # 0 THEN 1 ELSE 0

\* C11: SVB1_ENCODE8, _svb1_encode1_x64 and _svb1_encode1_generic all give key
\* 0 for v <= 0xFF, 1 for v <= 0xFFFF, 2 for v <= 0xFFFFFF and 3 above.
C11_Svb1Key ==
  f_pc \in { "SVB1_ENCODE8", "_svb1_encode1_x64", "_svb1_encode1_generic" }
    => f_key = Svb1KeyOf(f_v)

\* a three-byte value in the second word of SVB1_ENCODE8, among 0xFFFFFFFF
C11_Witness ==
  /\ f_pc = "SVB1_ENCODE8" /\ f_v = << 255, 255, 255, 0 >>
  /\ f_lane = 5 /\ f_fill = << 255, 255, 255, 255 >>
  /\ f_key = 2

\* the bytes the value itself took: the advance less that of the fill lanes
FnOwnLen ==
  IF f_pc = "SVB0_ENCODE8" THEN f_len - 7 * (IF IsZero32(f_fill) THEN 0 ELSE 4)
  ELSE f_len

\* C12: SVB0_ENCODE8, SVB0_ENCODE1 and _svb0_encode1_generic give key 0 and no
\* byte for 0, key 1 and one byte up to 0xFF, key 2 and two bytes up to
\* 0xFFFF, key 3 and four bytes above; never three bytes.
C12_Svb0Key ==
  f_pc \in { "SVB0_ENCODE8", "SVB0_ENCODE1", "_svb0_encode1_generic" }
    => /\ f_key = Svb0KeyOf(f_v)
       /\ FnOwnLen = << 0, 1, 2, 4 >>[f_key + 1]
       /\ FnOwnLen # 3

\* 0x00FFFFFF, three significant bytes, takes key 3 and four bytes
C12_Witness ==
  /\ f_pc = "SVB0_ENCODE1" /\ f_v = << 255, 255, 255, 0 >>
  /\ f_key = 3 /\ f_len = 4

\* C19: zigzag, delta and delta-zigzag decode undo their encode for every
\* value and every previous, modulo 2^32.
C19_FilterIdentities ==
  f_pc \in { "zigzag", "delta", "delta_zigzag" } => f_res = f_v

\* INT_MIN against a previous of 0xFFFFFFFF, where the subtraction wraps
C19_Witness ==
  /\ f_pc = "delta_zigzag" /\ f_v = << 0, 0, 0, 128 >>
  /\ f_p = << 255, 255, 255, 255 >> /\ f_res = f_v

(***************************************************************************)
(* The layout of an SVB stream (Spec)                                      *)
(***************************************************************************)
KeyOfValue(v, x) == IF IsSvb1(v) THEN Svb1KeyOf(x) ELSE Svb0KeyOf(x)

\* the payload of a value: its low PayloadLen bytes, least significant first
PayloadOf(v, x) == SubSeq(x, 1, PayloadLen(v, x))

\* the 2-bit key found at position e (1..N) of the key block
StreamKeyAt(e) == (out[((e - 1) \div 4) + 1] \div (4 ^ ((e - 1) % 4))) % 4

\* the payloads of the filtered elements lo..hi, in element order
RECURSIVE Payloads(_, _)
Payloads(lo, hi) ==
  IF lo > hi THEN << >>
  ELSE IF lo = hi THEN PayloadOf(variant, FilteredAt(lo))
  ELSE Payloads(lo, (lo + hi) \div 2) \o Payloads(((lo + hi) \div 2) + 1, hi)

IsPlainLayout == IsSvb /\ ~IsTranspose(variant)

\* C13: in the eight non-transposed SVB variants the key of the i-th filtered
\* element is in bits 2*(i mod 4), 2*(i mod 4)+1 of key byte floor(i/4).
C13_KeyPacking ==
  (Encoded /\ IsPlainLayout) =>
     \A e \in 1..N : StreamKeyAt(e) = KeyOfValue(variant, FilteredAt(e))

\* one chunk of eight and a tail of five: a keyword store, then two key bytes
C13_Witness ==
  /\ Encoded /\ variant = "svb1dz" /\ build = "x64" /\ N = 13
  /\ in = Periodic(Edges32, 1, N) /\ anchor = U32(42)
  /\ key_hi = 4
  /\ \E e \in 9..13 : StreamKeyAt(e) # 0

\* C14: in the non-transposed SVB variants the bytes from (N+3)>>2 up to the
\* returned end are the payloads of the filtered values in element order.
C14_DataBlock ==
  (Encoded /\ IsPlainLayout) =>
     SubSeq(out, ((N + 3) \div 4) + 1, enc_end) = Payloads(1, N)

\* chunks whose sixteen-byte stores overlap, then a tail, shorter than the bound
C14_Witness ==
  /\ Encoded /\ variant = "svb0" /\ build = "x64" /\ N = 17
  /\ in = Periodic(Edges32, 0, N)
  /\ enc_end < Bound(variant, N) /\ st_hi > enc_end
  /\ SubSeq(out, ((N + 3) \div 4) + 1, enc_end) = Payloads(1, N)

Scenario1 ==
  << U32(0), U32(1), U32(255), U32(256), U32(65535), << 0, 0, 1, 0 >>,
     << 255, 255, 255, 0 >>, << 0, 0, 0, 1 >> >>

\* C20: svb1_enc of [0, 1, 255, 256, 65535, 65536, 16777215, 16777216] gives
\* 19 bytes: keys 0x40 0xE9, then 00 01 FF 0001 FFFF 000001 FFFFFF 00000001.
C20_Scenario1 ==
  (Encoded /\ variant = "svb1" /\ in = Scenario1) =>
     /\ enc_end = 19
     /\ SubSeq(out, 1, 19) =
          << 64, 233, 0, 1, 255, 0, 1, 255, 255, 0, 0, 1, 255, 255, 255,
             0, 0, 0, 1 >>

C20_Witness ==
  /\ Encoded /\ variant = "svb1" /\ build = "x64" /\ in = Scenario1
  /\ enc_end = 19 /\ out[1] = 64 /\ out[2] = 233

(***************************************************************************)
(* The layout of a short varint stream (Spec)                              *)
(***************************************************************************)
\* the payload of a 16-bit value: low byte, then the high byte if not zero
ShortPayloadOf(w) == IF w > 255 THEN << w % 256, w \div 256 >> ELSE << w >>

\* the payloads of elements lo..hi in element order
RECURSIVE ShortPayloads(_, _)
ShortPayloads(lo, hi) ==
  IF lo > hi THEN << >>
  ELSE IF lo = hi THEN ShortPayloadOf(in[lo])
  ELSE ShortPayloads(lo, (lo + hi) \div 2)
         \o ShortPayloads(((lo + hi) \div 2) + 1, hi)

\* bit b of byte k (from 0) of the stream
StreamBit(k, b) == (out[k + 1] \div (2 ^ b)) % 2

ShortBitOf(w) == IF w > 255 THEN 1 ELSE 0

\* C15 as stated: for every N the data block of short_enc is the payloads of
\* the elements in element order, low byte then high byte.
C15_ElementOrder ==
  (Encoded /\ variant = "short") =>
     SubSeq(out, ((N + 7) \div 8) + 1, enc_end) = ShortPayloads(1, N)

\* C16 as stated: for every N the key bit of element i is bit i mod 8 of key
\* byte floor(i/8), set iff the value is above 0xFF.
C16_BitmapOrder ==
  (Encoded /\ variant = "short") =>
     \A e \in 1..N : StreamBit((e - 1) \div 8, (e - 1) % 8) = ShortBitOf(in[e])

\* the elements short_enc takes in blocks of 64
ShortBlocked == 64 * (N \div 64)

\* the high bytes of the elements lo..hi that are above 0xFF, last element first
RECURSIVE ShortHighBytes(_, _)
ShortHighBytes(lo, hi) ==
  IF lo > hi THEN << >>
  ELSE ShortHighBytes(lo + 1, hi)
         \o (IF in[lo] > 255 THEN << in[lo] \div 256 >> ELSE << >>)

\* eight elements of a block: their non-zero high bytes, then their low bytes
ShortGroupBytes(first) ==
  ShortHighBytes(first, first + 7) \o [k \in 1..8 |-> in[first + k - 1] % 256]

\* groups g..last (from 0) of the blocks
RECURSIVE ShortGroups(_, _)
ShortGroups(g, last) ==
  IF g > last THEN << >>
  ELSE IF g = last THEN ShortGroupBytes(8 * g + 1)
  ELSE ShortGroups(g, (g + last) \div 2) \o ShortGroups(((g + last) \div 2) + 1, last)

\* C15, amended: the elements after the last full block of 64 are stored in
\* element order, low byte then high byte; each group of eight elements of a
\* full block is stored as the high bytes of its elements above 0xFF, the
\* last such element first, followed by the eight low bytes in element order.
C15_DataBlock ==
  (Encoded /\ variant = "short") =>
     SubSeq(out, ((N + 7) \div 8) + 1, enc_end) =
       ShortGroups(0, (ShortBlocked \div 8) - 1) \o ShortPayloads(ShortBlocked + 1, N)

\* a block of 64 with one- and two-byte elements in every group, and a tail
C15_Witness ==
  /\ Encoded /\ variant = "short" /\ N = 64 + 13
  /\ in = Periodic(Edges16, 0, N)
  /\ enc_end < Bound(variant, N)
  /\ SubSeq(out, ((N + 7) \div 8) + 1, enc_end) # ShortPayloads(1, N)

\* the key-block position of element e (1..N): << byte, bit >>
ShortKeyPos(e) ==
  IF e <= ShortBlocked
  THEN << 8 * ((e - 1) \div 64) + ((e - 1) % 8), ((e - 1) % 64) \div 8 >>
  ELSE << (e - 1) \div 8, (e - 1) % 8 >>

\* C16, amended: the key bit of an element after the last full block of 64 is
\* bit i mod 8 of key byte floor(i/8); inside a full block the key bit of the
\* block's element 8r + c is bit r of the block's key byte c.  The bit is set
\* iff the value is above 0xFF.
C16_Bitmap ==
  (Encoded /\ variant = "short") =>
     \A e \in 1..N :
        StreamBit(ShortKeyPos(e)[1], ShortKeyPos(e)[2]) = ShortBitOf(in[e])

\* two blocks and a tail whose keys differ from the element-order bitmap
C16_Witness ==
  /\ Encoded /\ variant = "short" /\ N = 128 + 13
  /\ in = Periodic(Edges16, 1, N)
  /\ \E e \in 1..128 : StreamBit((e - 1) \div 8, (e - 1) % 8) # ShortBitOf(in[e])
  /\ \E e \in 129..N : StreamBit((e - 1) \div 8, (e - 1) % 8) = 1

(***************************************************************************)
(* The layout of a delta-transpose stream (Spec)                           *)
(***************************************************************************)
\* the elements the dt encoders take in blocks of 64
DtBlocked == 64 * (N \div 64)

\* the input element (1..N) encoded at stream position pos (1..N): position
\* 4*i + j of a block holds the block's element 16*j + i
DtElem(pos) ==
  IF pos <= DtBlocked
  THEN 64 * ((pos - 1) \div 64) + 16 * ((pos - 1) % 4) + (((pos - 1) % 64) \div 4) + 1
  ELSE pos

\* the payloads of stream positions lo..hi of a dt stream
RECURSIVE DtPayloads(_, _)
DtPayloads(lo, hi) ==
  IF lo > hi THEN << >>
  ELSE IF lo = hi THEN PayloadOf(variant, FilteredAt(DtElem(lo)))
  ELSE DtPayloads(lo, (lo + hi) \div 2) \o DtPayloads(((lo + hi) \div 2) + 1, hi)

DtBlockData == DtPayloads(1, DtBlocked)

\* C17: in the dt encoders, position 4*i + j of every full block of 64 holds
\* the delta in[16*j + i] - in[16*j + i - 1] of the original input order, the
\* element before the first one being the anchor: keys and payloads of the
\* blocks are those of the deltas in that order.
C17_BlockLayout ==
  (Encoded /\ IsTranspose(variant) /\ N >= 64) =>
     /\ \A pos \in 1..DtBlocked :
           StreamKeyAt(pos) = KeyOfValue(variant, FilteredAt(DtElem(pos)))
     /\ SubSeq(out, ((N + 3) \div 4) + 1, ((N + 3) \div 4) + Len(DtBlockData))
          = DtBlockData

\* two blocks and a tail, keys of every length, not the sequential order
C17_Witness ==
  /\ Encoded /\ variant = "svb1dt" /\ build = "generic" /\ N = 128 + 13
  /\ in = Periodic(Edges32, 1, N) /\ anchor = U32(42)
  /\ \E pos \in 65..128 : StreamKeyAt(pos) # KeyOfValue(variant, FilteredAt(pos))
  /\ \A k \in 0..3 : \E pos \in 65..128 : StreamKeyAt(pos) = k

\* the d variant of the same format
PlainDelta(v) ==
  IF v = "svb1dt" THEN "svb1d" ELSE IF v = "svb0dt" THEN "svb0d" ELSE v

\* the keys of the sequential deltas lo..hi packed four to a byte, the unused
\* bits of the last byte zero
RefKeyByte(k) ==
  LET K(e) == IF e <= N THEN KeyOfValue(PlainDelta(variant), FilteredAt(e)) ELSE 0
  IN K(4 * k + 1) + 4 * K(4 * k + 2) + 16 * K(4 * k + 3) + 64 * K(4 * k + 4)

\* the stream of the sequential deltas of the input: it depends on the format,
\* the input, the count and the anchor only
RefDeltaStream == [k \in 1..((N + 3) \div 4) |-> RefKeyByte(k - 1)] \o Payloads(1, N)

\* C18: the N mod 64 elements after the blocks of a dt stream are encoded as
\* sequential deltas; for N < 64 the d and the dt encoder of a format write
\* the same stream of the same length, the stream of the sequential deltas.
C18_DtTail ==
  /\ (Encoded /\ IsTranspose(variant)) =>
        /\ \A e \in (DtBlocked + 1)..N :
              StreamKeyAt(e) = KeyOfValue(variant, FilteredAt(e))
        /\ enc_end = ((N + 3) \div 4) + Len(DtBlockData) + Len(Payloads(DtBlocked + 1, N))
        /\ SubSeq(out, ((N + 3) \div 4) + Len(DtBlockData) + 1, enc_end)
             = Payloads(DtBlocked + 1, N)
  /\ (Encoded /\ IsDelta(variant) /\ N < 64) =>
        /\ enc_end = Len(RefDeltaStream)
        /\ SubSeq(out, 1, enc_end) = RefDeltaStream

\* a dt stream of two chunks of eight and one element, anchor 42
C18_Witness ==
  /\ Encoded /\ variant = "svb1dt" /\ build = "x64" /\ N = 17
  /\ in = Periodic(Edges32, 1, N) /\ anchor = U32(42)
  /\ enc_end = Len(RefDeltaStream) /\ enc_end > 5 + 17

(***************************************************************************)
(* Scenarios 2 and 4 (Spec)                                                *)
(***************************************************************************)
Scenario2 ==
  << U32(0), U32(1), U32(255), U32(256), U32(65535), << 0, 0, 1, 0 >>,
     << 255, 255, 255, 0 >> >>

\* the 14 data bytes of scenario 2: 01 FF 0001 FFFF 00000100 FFFFFF00
Scenario2Data == << 1, 255, 0, 1, 255, 255, 0, 0, 1, 0, 255, 255, 255, 0 >>

\* C21 as stated: svb0_enc of [0, 1, 255, 256, 65535, 65536, 16777215] gives
\* 16 bytes, the key bytes 0x69 0x0F and then the 14 data bytes.
C21_Scenario2_Stated ==
  (Encoded /\ variant = "svb0" /\ in = Scenario2) =>
     /\ enc_end = 16
     /\ SubSeq(out, 1, 16) = << 105, 15 >> \o Scenario2Data

\* C21, amended: svb0_enc of [0, 1, 255, 256, 65535, 65536, 16777215] gives
\* 16 bytes, the key bytes 0x94 0x3E and then the 14 data bytes.
C21_Scenario2 ==
  (Encoded /\ variant = "svb0" /\ in = Scenario2) =>
     /\ enc_end = 16
     /\ SubSeq(out, 1, 16) = << 148, 62 >> \o Scenario2Data

C21_Witness ==
  /\ Encoded /\ variant = "svb0" /\ build = "generic" /\ in = Scenario2
  /\ enc_end = 16 /\ out[1] = 148 /\ out[16] = 0

Scenario4 == << 0, 255, 256, 65535 >>

\* C22 as stated: short_enc of [0, 0x00FF, 0x0100, 0xFFFF] gives 7 bytes, the
\* key byte 0x0A and then 00 FF 0001 FFFF.
C22_Scenario4_Stated ==
  (Encoded /\ variant = "short" /\ in = Scenario4) =>
     /\ enc_end = 7
     /\ SubSeq(out, 1, 7) = << 10, 0, 255, 0, 1, 255, 255 >>

\* C22, amended: short_enc of [0, 0x00FF, 0x0100, 0xFFFF] gives 7 bytes, the
\* key byte 0x0C (bits 2 and 3 set) and then 00 FF 0001 FFFF.
C22_Scenario4 ==
  (Encoded /\ variant = "short" /\ in = Scenario4) =>
     /\ enc_end = 7
     /\ SubSeq(out, 1, 7) = << 12, 0, 255, 0, 1, 255, 255 >>

C22_Witness ==
  /\ Encoded /\ variant = "short" /\ in = Scenario4
  /\ enc_end = 7 /\ out[1] = 12 /\ out[7] = 255

(***************************************************************************)
(* Scenario 6: svb1_enc on arrays of 1000 elements (LenSpec)               *)
(***************************************************************************)
\* arrays of n elements: those of the tests and one of 0xFFFFFFFF only
LenInputs(n) == Inputs32(n) \cup { Periodic(<< << 255, 255, 255, 255 >> >>, 0, n) }

LenInit ==
  /\ variant = "svb1"
  /\ build \in Builds(variant)
  /\ N = 1000
  /\ in \in LenInputs(N)
  /\ anchor = U32(0)
  /\ LocalsInit
  /\ big_pc = "idle"
  /\ big_count = U64(N)
  /\ big_bound = U64(0)
  /\ big_start = U64(0)
  /\ FnIdle

\* svb1_enc with count = 1000: chunks of eight and no tail (x64), single
\* elements (generic)
LenNext ==
  EncEntry_x64 \/ EncChunk8_x64 \/ EncEntry_generic \/ EncLoop1_generic
    \/ EncFlush_generic \/ EncReturn

LenSpec == LenInit /\ [][LenNext]_vars

\* C23 as stated: for N = 1000 the length of the svb1 stream is in
\* [1250 + N, 1250 + 4N] = [2250, 5250].
C23_Scenario6_Stated ==
  (Encoded /\ variant = "svb1" /\ N = 1000) => enc_end \in 2250..5250

\* C23, amended: for N = 1000 the length of the svb1 stream is in
\* [250 + N, 250 + 4N] = [1250, 4250], 250 being the key block's length.
C23_Scenario6 ==
  (Encoded /\ variant = "svb1" /\ N = 1000) =>
     /\ ToInt(_svb_key_block_len(U64(N))) = 250
     /\ enc_end \in 1250..4250

\* the shortest stream: a thousand one-byte values
C23_Witness ==
  /\ Encoded /\ variant = "svb1" /\ N = 1000 /\ build = "x64"
  /\ in = Periodic(Zeros32, 0, N)
  /\ enc_end = 1250

\* the longest stream: a thousand four-byte values
C23_WitnessMax ==
  /\ Encoded /\ variant = "svb1" /\ N = 1000
  /\ enc_end = 4250

(***************************************************************************)
(* The predecessor of the delta filters (Spec)                             *)
(***************************************************************************)
\* the original input value before element e (1..N), the anchor before the
\* first
Pred(e) == IF e = 1 THEN anchor ELSE in[e - 1]

\* zigzag by cases: 2x for x >= 0 and -2x - 1 for x < 0, mod 2^32
ZigzagOf(x) ==
  IF x[4] < 128 THEN Add32(x, x) ELSE [k \in 1..4 |-> 255 - Add32(x, x)[k]]

\* the value the d and dz variants encode for element e
DeltaOf(e) ==
  IF IsDeltaZigzag(variant) THEN ZigzagOf(Sub32(in[e], Pred(e)))
  ELSE Sub32(in[e], Pred(e))

RECURSIVE DeltaPayloads(_, _)
DeltaPayloads(lo, hi) ==
  IF lo > hi THEN << >>
  ELSE IF lo = hi THEN PayloadOf(variant, DeltaOf(lo))
  ELSE DeltaPayloads(lo, (lo + hi) \div 2) \o DeltaPayloads(((lo + hi) \div 2) + 1, hi)

IsSequentialDelta == variant \in { "svb1d", "svb0d", "svb1dz", "svb0dz" }

\* C24: in the d and dz encoders the value encoded for element i is
\* in[i] - in[i-1] (zigzagged for dz) with in[-1] = previous; the predecessor
\* held by the encoder is always the original input value, in the chunk loop
\* (last lane of prev) and in the scalar loops (previous) alike.
C24_AnchorThreading ==
  IsSequentialDelta =>
     /\ (pc = "chunk8") => _mm_extract_epi32(prev, 3) = Pred(ip + 1)
     /\ (pc \in { "tail", "gloop" }) => previous = Pred(ip + i + 1)
     /\ Encoded =>
          /\ \A e \in 1..N : StreamKeyAt(e) = KeyOfValue(variant, DeltaOf(e))
          /\ SubSeq(out, ((N + 3) \div 4) + 1, enc_end) = DeltaPayloads(1, N)

\* the scalar tail after two chunks: its first predecessor is in[15], and the
\* zigzagged delta before it is another value
C24_Witness ==
  /\ variant = "svb1dz" /\ build = "x64" /\ N = 17 /\ anchor = U32(42)
  /\ in = Periodic(Edges32, 1, N)
  /\ pc = "tail" /\ i = 0 /\ ip = 16
  /\ previous = in[16] /\ previous # ZigzagOf(Sub32(in[16], in[15]))

(***************************************************************************)
(* The anchor of the dt encoders after a block (Spec)                      *)
(***************************************************************************)
\* C25: in the dt encoders, after a block of 64 the anchor of the next block,
\* of the chunks of eight and of the scalar loop is the block's last input
\* element in original order (in[63] of the block).
C25_BlockAnchor ==
  (IsTranspose(variant) /\ ip >= 64) =>
     /\ (pc \in { "block64", "chunk8" }) => _mm_extract_epi32(prev, 3) = in[ip]
     /\ (pc = "gblock64") => previous = in[ip]
     /\ (pc \in { "tail", "gloop" } /\ i = 0) => previous = in[ip]

\* after the first block of two the anchor is in[63], which is neither the
\* caller's anchor nor the last delta of the block
C25_Witness ==
  /\ variant = "svb1dt" /\ build = "x64" /\ N = 128 + 13 /\ anchor = U32(42)
  /\ in = Periodic(Edges32, 1, N)
  /\ pc = "block64" /\ ip = 64
  /\ _mm_extract_epi32(prev, 3) = in[64]
  /\ in[64] # Sub32(in[64], in[63]) /\ in[64] # anchor

\* the same hand-over into the scalar loop of the generic build
C25_WitnessTail ==
  /\ variant = "svb0dt" /\ build = "generic" /\ N = 64 + 1
  /\ pc = "gloop" /\ i = 0 /\ ip = 64 /\ previous = in[64]

(***************************************************************************)
(* The tables of the chunk path, looked up with every key byte (TabSpec)   *)
(***************************************************************************)
TabInit ==
  /\ variant = "svb1"
  /\ build = "x64"
  /\ N = 0
  /\ in = << >>
  /\ anchor = U32(0)
  /\ LocalsInit
  /\ big_pc = "idle"
  /\ big_count = U64(0)
  /\ big_bound = U64(0)
  /\ big_start = U64(0)
  /\ f_pc = "key"
  /\ f_v = U32(0)
  /\ f_p = U32(0)
  /\ f_lane = 0
  /\ f_fill = U32(0)
  /\ f_key \in 0..255
  /\ f_len = 0
  /\ f_res = U32(0)

\* the 2-bit key of lane l in key byte k, and the payload lengths of the formats
KeyField(k, l) == (k \div (4 ^ l)) % 4
Svb1LenOfKey(c) == c + 1
Svb0LenOfKey(c) == << 0, 1, 2, 4 >>[c + 1]

\* a word of four values whose keys are the fields of k: the bytes of lane l
\* below its length are 16*l + b + 1, the others zero
TabLane(l, len) == [b \in 1..4 |-> IF b <= len THEN 16 * l + b ELSE 0]
TabSrc1(k) ==
  FromLanes(TabLane(0, Svb1LenOfKey(KeyField(k, 0))), TabLane(1, Svb1LenOfKey(KeyField(k, 1))),
            TabLane(2, Svb1LenOfKey(KeyField(k, 2))), TabLane(3, Svb1LenOfKey(KeyField(k, 3))))
TabSrc0(k) ==
  FromLanes(TabLane(0, Svb0LenOfKey(KeyField(k, 0))), TabLane(1, Svb0LenOfKey(KeyField(k, 1))),
            TabLane(2, Svb0LenOfKey(KeyField(k, 2))), TabLane(3, Svb0LenOfKey(KeyField(k, 3))))

\* data_ptr += svb1_len_table[keys & 0xFF]
Tab_svb1_len ==
  /\ f_pc = "key"
  /\ f_len' = Svb1LenA(f_key)
  /\ f_pc' = "svb1_len"
  /\ UNCHANGED << callvars, pc, encvars, decvars, sizevars, f_v, f_p, f_lane, f_fill, f_key, f_res >>

\* data_ptr += svb0_len_table[keys & 0xFF]
Tab_svb0_len ==
  /\ f_pc = "key"
  /\ f_len' = Svb0LenA(f_key)
  /\ f_pc' = "svb0_len"
  /\ UNCHANGED << callvars, pc, encvars, decvars, sizevars, f_v, f_p, f_lane, f_fill, f_key, f_res >>

\* the first half of SVB1_ENCODE8: the row loaded, the shuffle, the length
Tab_svb1_shuf ==
  /\ f_pc = "key"
  /\ f_v' = Svb1ShufA(f_key)
  /\ f_res' = _mm_shuffle_epi8(TabSrc1(f_key), Svb1ShufA(f_key))
  /\ f_len' = Svb1LenA(f_key)
  /\ f_pc' = "svb1_shuf"
  /\ UNCHANGED << callvars, pc, encvars, decvars, sizevars, f_p, f_lane, f_fill, f_key >>

\* the first half of SVB0_ENCODE8
Tab_svb0_shuf ==
  /\ f_pc = "key"
  /\ f_v' = Svb0ShufA(f_key)
  /\ f_res' = _mm_shuffle_epi8(TabSrc0(f_key), Svb0ShufA(f_key))
  /\ f_len' = Svb0LenA(f_key)
  /\ f_pc' = "svb0_shuf"
  /\ UNCHANGED << callvars, pc, encvars, decvars, sizevars, f_p, f_lane, f_fill, f_key >>

TabNext == Tab_svb1_len \/ Tab_svb0_len \/ Tab_svb1_shuf \/ Tab_svb0_shuf

TabSpec == TabInit /\ [][TabNext]_vars

\* C26: svb1_len_table[k] is the sum over the four fields of k of field + 1,
\* svb0_len_table[k] the sum of {0, 1, 2, 4}[field], for every key byte k.
C26_LenTables ==
  /\ (f_pc = "svb1_len") =>
        f_len = Svb1LenOfKey(KeyField(f_key, 0)) + Svb1LenOfKey(KeyField(f_key, 1))
                  + Svb1LenOfKey(KeyField(f_key, 2)) + Svb1LenOfKey(KeyField(f_key, 3))
  /\ (f_pc = "svb0_len") =>
        f_len = Svb0LenOfKey(KeyField(f_key, 0)) + Svb0LenOfKey(KeyField(f_key, 1))
                  + Svb0LenOfKey(KeyField(f_key, 2)) + Svb0LenOfKey(KeyField(f_key, 3))

\* the key byte 0xE4 (keys 0, 1, 2, 3): lengths 10 and 7
C26_Witness == f_pc = "svb0_len" /\ f_key = 228 /\ f_len = 7

\* the byte positions 4*l .. 4*l + len - 1 of a lane
LanePositions(l, len) == [b \in 1..len |-> 4 * l + b - 1]

\* the row the claim describes for the keys c0, c1, c2 of lanes 0..2
RowOf(l0, l1, l2) ==
  LET used == LanePositions(0, l0) \o LanePositions(1, l1) \o LanePositions(2, l2)
                \o << 12, 13, 14, 15 >>
  IN used \o [k \in 1..(16 - Len(used)) |-> 0]

\* the payloads of the four lanes of src in lane order
FourPayloads(src, l0, l1, l2, l3) ==
  SubSeq(src, 1, l0) \o SubSeq(src, 5, 4 + l1) \o SubSeq(src, 9, 8 + l2)
    \o SubSeq(src, 13, 12 + l3)

\* C27: the row of svb1_enc_table and of svb0_enc_table selected by the keys
\* of lanes 0..2 lists the byte positions of the payloads of lanes 0..2, then
\* 12..15, then zeros; the first len_table[k] shuffled bytes are the four
\* payloads in lane order, whatever the key of lane 3.
C27_EncTables ==
  /\ (f_pc = "svb1_shuf") =>
        /\ f_v = RowOf(Svb1LenOfKey(KeyField(f_key, 0)), Svb1LenOfKey(KeyField(f_key, 1)),
                       Svb1LenOfKey(KeyField(f_key, 2)))
        /\ SubSeq(f_res, 1, f_len) =
             FourPayloads(TabSrc1(f_key), Svb1LenOfKey(KeyField(f_key, 0)),
                          Svb1LenOfKey(KeyField(f_key, 1)), Svb1LenOfKey(KeyField(f_key, 2)),
                          Svb1LenOfKey(KeyField(f_key, 3)))
  /\ (f_pc = "svb0_shuf") =>
        /\ f_v = RowOf(Svb0LenOfKey(KeyField(f_key, 0)), Svb0LenOfKey(KeyField(f_key, 1)),
                       Svb0LenOfKey(KeyField(f_key, 2)))
        /\ SubSeq(f_res, 1, f_len) =
             FourPayloads(TabSrc0(f_key), Svb0LenOfKey(KeyField(f_key, 0)),
                          Svb0LenOfKey(KeyField(f_key, 1)), Svb0LenOfKey(KeyField(f_key, 2)),
                          Svb0LenOfKey(KeyField(f_key, 3)))

\* keys 2, 0, 3 and lane 3 with key 1: a row with an empty lane, and a lane 3
\* shorter than the four positions the row lists for it
C27_Witness ==
  /\ f_pc = "svb0_shuf" /\ f_key = 114
  /\ f_v = << 0, 1, 8, 9, 10, 11, 12, 13, 14, 15, 0, 0, 0, 0, 0, 0 >>
  /\ f_len = 7

(***************************************************************************)
(* The stream as a function of the input, the count and the anchor         *)
(***************************************************************************)
\* the key-block length of the stream
StreamKeyLen == IF variant = "short" THEN (N + 7) \div 8 ELSE (N + 3) \div 4

\* the input element (1..N) whose key is at stream position pos of an SVB
\* stream, and the key expected there (0 beyond the last element)
SvbElem(pos) == IF IsTranspose(variant) THEN DtElem(pos) ELSE pos
SvbKeyAt(pos) ==
  IF pos <= N THEN KeyOfValue(variant, FilteredAt(SvbElem(pos))) ELSE 0

SvbKeyByte(k) ==
  SvbKeyAt(4 * k + 1) + 4 * SvbKeyAt(4 * k + 2) + 16 * SvbKeyAt(4 * k + 3)
    + 64 * SvbKeyAt(4 * k + 4)

SvbPayloads ==
  IF IsTranspose(variant)
  THEN DtPayloads(1, DtBlocked) \o Payloads(DtBlocked + 1, N)
  ELSE Payloads(1, N)

\* the SVB stream of the call's variant, input, count and anchor
SvbStream == [k \in 1..StreamKeyLen |-> SvbKeyByte(k - 1)] \o SvbPayloads

\* C28 for the counts of the tests: the stream and the length an SVB encoder
\* returns are SvbStream, whatever the build.
C28_SameStream ==
  (Encoded /\ IsSvb) =>
     /\ enc_end = Len(SvbStream)
     /\ SubSeq(out, 1, enc_end) = SvbStream

\* C28: for each of the ten encoders the x64 and the generic build start the
\* data block at the same offset, so that they write the same stream and
\* return the same length, for every count.
C28_SameDataStart ==
  (big_pc = "started" /\ IsSvb) =>
     KeyBlockLen(variant, "x64", big_count) = KeyBlockLen(variant, "generic", big_count)

\* the two builds of a dt encoder on two blocks and a tail: one stream
C28_Witness ==
  /\ Encoded /\ variant = "svb0dt" /\ N = 128 + 13 /\ anchor = U32(42)
  /\ in = Periodic(Edges32, 1, N)
  /\ SubSeq(out, 1, enc_end) = SvbStream

\* the bit of the short key block at byte k, bit b: that of the element kept
\* there, 0 where there is none
ShortElemAt(k, b) ==
  IF 8 * k < ShortBlocked THEN 64 * (k \div 8) + 8 * b + (k % 8) + 1
  ELSE 8 * k + b + 1
ShortKeyBit(k, b) ==
  IF ShortElemAt(k, b) <= N THEN ShortBitOf(in[ShortElemAt(k, b)]) ELSE 0
ShortKeyByte(k) ==
  ShortKeyBit(k, 0) + 2 * ShortKeyBit(k, 1) + 4 * ShortKeyBit(k, 2)
    + 8 * ShortKeyBit(k, 3) + 16 * ShortKeyBit(k, 4) + 32 * ShortKeyBit(k, 5)
    + 64 * ShortKeyBit(k, 6) + 128 * ShortKeyBit(k, 7)

ShortData ==
  ShortGroups(0, (ShortBlocked \div 8) - 1) \o ShortPayloads(ShortBlocked + 1, N)

\* the short varint stream of the call's input and count
ShortStream == [k \in 1..StreamKeyLen |-> ShortKeyByte(k - 1)] \o ShortData

\* C30: the bits of the last key byte beyond element N - 1 are 0 (SVB with
\* N mod 4 # 0, short with N mod 8 # 0), and the whole stream up to the
\* returned end is a function of the input, the count and the anchor.
C30_ReservedBits ==
  /\ (Encoded /\ IsSvb /\ N % 4 # 0) => out[StreamKeyLen] \div (4 ^ (N % 4)) = 0
  /\ (Encoded /\ variant = "short" /\ N % 8 # 0) =>
        out[StreamKeyLen] \div (2 ^ (N % 8)) = 0
  /\ Encoded =>
        SubSeq(out, 1, enc_end) = (IF variant = "short" THEN ShortStream ELSE SvbStream)

\* one element in the last key byte, with a key that is not 0, after a block
C30_Witness ==
  /\ Encoded /\ variant = "svb0dt" /\ build = "generic" /\ N = 64 + 1
  /\ anchor = U32(42) /\ in = Periodic(Edges32, 1, N)
  /\ out[StreamKeyLen] \in 1..3

\* the same for the short codec: five elements in the last key byte
C30_WitnessShort ==
  /\ Encoded /\ variant = "short" /\ N = 13 /\ in = Periodic(Edges16, 1, N)
  /\ out[StreamKeyLen] \in 1..31

(***************************************************************************)
(* The stores of an encode call (Spec, SizeSpec)                           *)
(***************************************************************************)
\* a < b for two 64-bit values
Less64(a, b) == \E k \in 1..8 : a[k] < b[k] /\ \A j \in (k + 1)..8 : a[j] = b[j]

\* the key-block length of a count, in full width
KeyLen64(cnt) ==
  IF variant = "short" THEN Shr64(Add64(cnt, U64(7)), 3) ELSE _svb_key_block_len(cnt)

\* C29: no data store of an encode call touches an offset below the
\* key-block length: the data cursor starts at the key-block length, for
\* every count.
C29_DataAboveKeys ==
  (big_pc = "started") => ~Less64(big_start, KeyLen64(big_count))

\* what the stores of a call have touched so far: data at or above the
\* key-block length, keys below it, the vector builds' stores at the cursor;
\* and at return the data block holds payload up to the returned end
C29_Stores ==
  /\ data_lo >= StreamKeyLen
  /\ key_hi <= StreamKeyLen
  /\ (build = "x64") => n_off = 0
  /\ Encoded =>
       SubSeq(out, StreamKeyLen + 1, enc_end) =
         (IF variant = "short" THEN ShortData ELSE SvbPayloads)

\* a step of a call: the cursor does not move backwards and the data bytes
\* below it are left as they are
C29_Step ==
  /\ data_ptr' >= data_ptr
  /\ \A k \in (StreamKeyLen + 1)..data_ptr : out'[k] = out[k]

\* C29 for the counts of the tests: every step of an encode call keeps the
\* data bytes below the cursor, and the stores stay on their side of the
\* key-block length.
C29_StablePrefix == []C29_Stores /\ [][C29_Step]_vars

\* stores of sixteen bytes past the cursor, overwritten by the next ones
C29_Witness ==
  /\ Encoded /\ variant = "svb1" /\ build = "x64" /\ N = 17
  /\ in = Periodic(Edges32, 0, N)
  /\ st_hi > enc_end /\ data_lo = StreamKeyLen /\ key_hi = StreamKeyLen
====
